---- MODULE Spec2Model ----
(***************************************************************************)
(* A model of the python uops emulator, tinygrad/runtime/ops_python.py:    *)
(* PythonProgram.__call__ walks the instruction list self.uops once per    *)
(* global coordinate, keeping one lane-vector per instruction position.    *)
(*                                                                         *)
(* Python objects are modelled with their identity: a list is an entry of  *)
(* `heap`, a buffer (bytearray behind a memoryview) an entry of `mem`, and *)
(* a value held in a list or in the value table ul is a cell               *)
(*    [k |-> "s", v |-> n]          the number n (True is 1, False is 0)   *)
(*    [k |-> "l", v |-> id]         a reference to the list heap[id]       *)
(*    [k |-> "m", v |-> b, f |-> c] a memoryview of buffer mem[b], cast to *)
(*                                  the element format c                   *)
(* Program positions are the source's: 0 .. len(uops)-1; the instruction   *)
(* at position p is uops[p+1].  A python list index j is index j+1 here.   *)
(*                                                                         *)
(* Scope: integer, bool and image element types; the instruction kinds     *)
(* BITCAST and WMMA (struct bit patterns, the external tensor-core model)  *)
(* are not modelled.  Programs are shape-correct: an operand that a        *)
(* handler indexes as a list is a list.  local_size has no zero component. *)
(*                                                                         *)
(* Spec is the call as the code runs it, coordinate after coordinate.      *)
(* FairSpec is Spec on the programs without an out-of-range index, with    *)
(* the interpreter always taking its next step.  AnyOrderSpec runs the     *)
(* same instruction steps with the coordinates in any order, interleaved.  *)
(***************************************************************************)
EXTENDS Integers, Sequences, FiniteSets, TLC

\* ------------------------------------------------------------ bounds
\* the 8-bit CAST programs convert every integer from -MaxCast to MaxCast
MaxCast == 260
\* largest loop bound / start value of the loop programs
MaxN == 3
\* horizon of the model's integers: python ints are unbounded, the model
\* takes no step that would make a loop variable exceed MaxInt
MaxInt == 7

\* ------------------------------------------------------------ cells
S(x) == [k |-> "s", v |-> x, f |-> 0]
L(id) == [k |-> "l", v |-> id, f |-> 0]
M(b, fmt) == [k |-> "m", v |-> b, f |-> fmt]

Rep(x, n) == [j \in 1..n |-> x]

Min2(a, b) == IF a < b THEN a ELSE b

RECURSIVE Pow2(_)
Pow2(n) == IF n = 0 THEN 1 ELSE 2 * Pow2(n - 1)

\* python dict operations
EmptyDict == [x \in {} |-> 0]
Put(d, key, val) == [x \in (DOMAIN d) \cup {key} |-> IF x = key THEN val ELSE d[x]]
Del(d, key) == [x \in (DOMAIN d) \ {key} |-> d[x]]

\* ------------------------------------------------------------ dtypes
\* kind: "none" (dtype is None), "int", "uint", "bool", "img" (ImageDType);
\* count: components; itemsize: bytes of the whole value; shape: <<height, width>>
DT(kind, count, itemsize, h, w) ==
  [kind |-> kind, count |-> count, itemsize |-> itemsize, h |-> h, w |-> w]
NoneT == DT("none", 1, 0, 0, 0)
int8 == DT("int", 1, 1, 0, 0)
uint8 == DT("uint", 1, 1, 0, 0)
int16 == DT("int", 1, 2, 0, 0)
uint16 == DT("uint", 1, 2, 0, 0)
int32 == DT("int", 1, 4, 0, 0)
boolT == DT("bool", 1, 1, 0, 0)
vec(dt, n) == DT(dt.kind, n, dt.itemsize * n, 0, 0)
imagef(h, w) == DT("img", 1, 4, h, w)

is_int(dt) == dt.kind \in {"int", "uint"}
is_unsigned(dt) == dt.kind = "uint"
isImage(dt) == dt.kind = "img"

\* struct format code of a dtype: 0 is None (vector types have no format),
\* -bits a signed and +bits an unsigned integer, 1 the image's float
\* format, 2 the bool format
FmtOf(dt) ==
  IF dt.kind = "none" \/ dt.count > 1 THEN 0
  ELSE IF dt.kind = "int" THEN 0 - 8 * dt.itemsize
  ELSE IF dt.kind = "uint" THEN 8 * dt.itemsize
  ELSE IF dt.kind = "img" THEN 1
  ELSE 2

\* whether the number v can be written to an element of format fmt
\* (memoryview item assignment raises ValueError otherwise); every number of
\* the model fits a signed 32-bit element
Fits(fmt, v) ==
  IF fmt <= 0 - 32 THEN TRUE
  ELSE IF fmt < 0 THEN v >= 0 - Pow2((0 - fmt) - 1) /\ v <= Pow2((0 - fmt) - 1) - 1
  ELSE IF fmt >= 8 THEN v >= 0 /\ v <= Pow2(fmt) - 1
  ELSE TRUE

\* ------------------------------------------------------------ memory layer
\* mem is the sequence of buffers alive in the process; a buffer is
\* [data |-> its elements, decl |-> the position of the DEFINE_LOCAL that
\* allocated it, or -1 for a caller-supplied buffer]
Buf(data, decl) == [data |-> data, decl |-> decl]

\* _load(m, i): [exc |-> "" or the error raised, val |-> the element read]
_load(m, mv, idx) ==
  IF idx < 0 \/ idx >= Len(m[mv.v].data) THEN [exc |-> "IndexError", val |-> 0]
  ELSE [exc |-> "", val |-> m[mv.v].data[idx + 1]]

\* _store without the test for a negative index: the index counts from the end
\* of the buffer, as a bare m[i] = v does
StoreNegativeFromEnd(m, mv, idx, val) ==
  LET n == Len(m[mv.v].data)
      at == IF idx < 0 THEN idx + n ELSE idx
  IN IF at < 0 \/ at >= n THEN [m |-> m, exc |-> "IndexError"]
     ELSE IF ~Fits(mv.f, val) THEN [m |-> m, exc |-> "ValueError"]
     ELSE [m |-> [m EXCEPT ![mv.v].data[at + 1] = val], exc |-> ""]

\* _store(m, i, v): [m |-> memory afterwards, exc |-> "" or the error raised]
_store(m, mv, idx, val) ==
  IF idx < 0 \/ idx >= Len(m[mv.v].data) THEN [m |-> m, exc |-> "IndexError"]
  ELSE IF ~Fits(mv.f, val) THEN [m |-> m, exc |-> "ValueError"]
  ELSE [m |-> [m EXCEPT ![mv.v].data[idx + 1] = val], exc |-> ""]

\* ------------------------------------------------------------ state
VARIABLES
  uops,         \* self.uops: the program
  bufs,         \* *bufs: the caller's buffers, as indices into mem
  vals,         \* vals: the caller's scalar values
  global_size,  \* <<g0, g1, g2>>
  local_size,   \* <<l0, l1, l2>>
  mem,          \* the buffers: the caller's, then the local ones
  mem0,         \* the caller's buffers as they were when __call__ began
  coords,       \* the coordinates the for loop of line 34 has still to yield
  idxs,         \* the current coordinate, <<g2, g1, g0>>
  ul, dl, pbufs, pvals, i, loop_ends,   \* the execution context, lines 35-40
  heap,         \* the list objects created in this coordinate's run
  parked,       \* the contexts of coordinates whose runs are suspended: none
                \* in the sequential order of line 34
  pc,           \* "for" | "run" | "returned" | "raised"
  exc           \* the exception that ended the call, "" if none

vars == <<uops, bufs, vals, global_size, local_size, mem, mem0, coords, idxs,
          ul, dl, pbufs, pvals, i, loop_ends, heap, parked, pc, exc>>

\* an instruction (uop, dtype, idp, arg); arg is [s |-> text, n |-> number]:
\* CONST n; DEFINE_LOCAL size n; SPECIAL axis n of kind s ("g" or "l");
\* GEP index n; ALU operation s
UOp(uop, dtype, idp, s, n) ==
  [uop |-> uop, dtype |-> dtype, idp |-> idp, arg |-> [s |-> s, n |-> n]]

U(p) == uops[p + 1]

\* itertools.product(*[range(x) for x in size[::-1]]): the tuples <<a2, a1, a0>>,
\* a0 varying fastest
product(size) ==
  [n \in 1..(size[1] * size[2] * size[3]) |->
     << (n - 1) \div (size[1] * size[2]),
        ((n - 1) \div size[1]) % size[2],
        (n - 1) % size[1] >>]

warp == product(local_size)
warp_size == Len(warp)

\* the execution context of one coordinate, as one value
Ctx == [idxs |-> idxs, ul |-> ul, dl |-> dl, pbufs |-> pbufs, pvals |-> pvals,
        i |-> i, loop_ends |-> loop_ends, heap |-> heap, exc |-> ""]

\* lines 35-40
NewCtx(ix) == [idxs |-> ix, ul |-> EmptyDict, dl |-> EmptyDict, pbufs |-> bufs,
               pvals |-> vals, i |-> 0, loop_ends |-> EmptyDict, heap |-> << >>,
               exc |-> ""]

Raise(c, e) == [c EXCEPT !.exc = e]
Res(c, m) == [c |-> c, m |-> m]

\* ul[i] = <a new list lst>; i += 1
Produce(c, lst) ==
  [c EXCEPT !.heap = Append(@, lst), !.ul = Put(@, c.i, L(Len(c.heap) + 1)), !.i = @ + 1]
\* ul[i] = <an existing value>; i += 1
Bind(c, cell) == [c EXCEPT !.ul = Put(@, c.i, cell), !.i = @ + 1]

Lst(c, cell) == c.heap[cell.v]

\* ------------------------------------------------------------ operands
void_ops == {"STORE", "ENDRANGE", "BARRIER", "IF", "ENDIF"}
NotVoid(v) == U(v).uop \notin void_ops
\* operand positions with DEFINE_ACC's loop references left in
idpOfWhole(p) == U(p).idp
\* line 44
idpOf(p) == IF U(p).uop = "DEFINE_ACC" THEN <<U(p).idp[1]>> ELSE U(p).idp
\* the operand positions lines 45-46 look up
Srcs(p) == SelectSeq(idpOf(p), NotVoid)
\* ul[v] raises KeyError for a position that holds no value
Resolved(c) == \A n \in 1..Len(Srcs(c.i)) : Srcs(c.i)[n] \in DOMAIN c.ul
inp(c) == [n \in 1..Len(Srcs(c.i)) |-> c.ul[Srcs(c.i)[n]]]
dtp(c) == [n \in 1..Len(Srcs(c.i)) |-> c.dl[Srcs(c.i)[n]]]

\* ------------------------------------------------------------ STORE
\* One write the lane loops of lines 54-64 attempt, in the order they attempt
\* it: the lane's memoryview, element index, value and gate; ok is the
\* assertion of line 56 (TRUE outside the image form)
Write(mv, idx, val, g, ok) == [mv |-> mv, idx |-> idx, val |-> val, g |-> g, ok |-> ok]

RECURSIVE Flatten(_, _)
Flatten(f, n) == IF n = 0 THEN << >> ELSE Flatten(f, n - 1) \o f[n]

\* line 50: the gate of every lane, True when the STORE has three operands
GateOf(c) ==
  IF Len(inp(c)) = 3 THEN Rep(S(1), Len(Lst(c, inp(c)[1]))) ELSE Lst(c, inp(c)[4])

\* lines 63-64: zip(*inp)
ScalarWrites(c) ==
  LET m_ == Lst(c, inp(c)[1])
      o == Lst(c, inp(c)[2])
      v == Lst(c, inp(c)[3])
      g == GateOf(c)
      n == Min2(Min2(Len(m_), Len(o)), Min2(Len(v), Len(g)))
  IN [l \in 1..n |-> Write(m_[l], o[l].v, v[l].v, g[l].v, TRUE)]

\* the multi-component loops nested the other way round: every component of
\* a lane before the next lane
VectorWritesLaneMajor(c) ==
  LET m_ == Lst(c, inp(c)[1])
      o == Lst(c, inp(c)[2])
      comps == Lst(c, inp(c)[3])
      g == GateOf(c)
      n == Min2(Min2(Len(m_), Len(o)), Len(g))
      lane(l) == [j \in 1..Len(comps) |->
                    Write(m_[l], o[l].v + (j - 1), Lst(c, comps[j])[l].v, g[l].v, TRUE)]
  IN Flatten([l \in 1..n |-> lane(l)], n)

\* lines 59-61: for j,val in enumerate(inp[2]): zip(inp[0], inp[1], val, inp[3])
VectorWrites(c) ==
  LET m_ == Lst(c, inp(c)[1])
      o == Lst(c, inp(c)[2])
      comps == Lst(c, inp(c)[3])
      g == GateOf(c)
      row(j) == LET val == Lst(c, comps[j])
                    n == Min2(Min2(Len(m_), Len(o)), Min2(Len(val), Len(g)))
                IN [l \in 1..n |-> Write(m_[l], o[l].v + (j - 1), val[l].v, g[l].v, TRUE)]
  IN Flatten([j \in 1..Len(comps) |-> row(j)], Len(comps))

\* lines 54-57: zip(inp[0], inp[1][0], inp[1][1], val, inp[3])
ImageWrites(c) ==
  LET m_ == Lst(c, inp(c)[1])
      ox == Lst(c, Lst(c, inp(c)[2])[1])
      oy == Lst(c, Lst(c, inp(c)[2])[2])
      comps == Lst(c, inp(c)[3])
      g == GateOf(c)
      shape == dtp(c)[1]
      row(j) == LET val == Lst(c, comps[j])
                    n == Min2(Min2(Min2(Len(m_), Len(ox)), Len(oy)), Min2(Len(val), Len(g)))
                IN [l \in 1..n |->
                      Write(m_[l], ox[l].v * 4 + oy[l].v * shape.w * 4 + (j - 1), val[l].v, g[l].v,
                            ox[l].v >= 0 /\ ox[l].v < shape.w /\ oy[l].v >= 0 /\ oy[l].v < shape.h)]
  IN Flatten([j \in 1..Len(comps) |-> row(j)], Len(comps))

Writes(c) ==
  IF isImage(dtp(c)[1]) THEN ImageWrites(c)
  ELSE IF dtp(c)[3].count > 1 THEN VectorWrites(c)
  ELSE ScalarWrites(c)

\* the lane loops without "if g": every lane stores
RECURSIVE StoreFromUngated(_, _, _)
StoreFromUngated(ws, n, m) ==
  IF n > Len(ws) THEN [m |-> m, exc |-> ""]
  ELSE IF ~ws[n].ok THEN [m |-> m, exc |-> "AssertionError"]
  ELSE LET r == _store(m, ws[n].mv, ws[n].idx, ws[n].val)
       IN IF r.exc # "" THEN r ELSE StoreFromUngated(ws, n + 1, r.m)

\* the lane loops going on after a lane that raises: the error is kept and
\* raised when the loops are done
RECURSIVE StoreFromGoingOn(_, _, _)
StoreFromGoingOn(ws, n, m) ==
  IF n > Len(ws) THEN [m |-> m, exc |-> ""]
  ELSE LET r == IF ~ws[n].ok THEN [m |-> m, exc |-> "AssertionError"]
                ELSE IF ws[n].g = 0 THEN [m |-> m, exc |-> ""]
                ELSE _store(m, ws[n].mv, ws[n].idx, ws[n].val)
           rest == StoreFromGoingOn(ws, n + 1, r.m)
       IN IF r.exc # "" THEN [m |-> rest.m, exc |-> r.exc] ELSE rest

\* the lane loops: the writes from the n-th on, stopping at the first that raises
RECURSIVE StoreFrom(_, _, _)
StoreFrom(ws, n, m) ==
  IF n > Len(ws) THEN [m |-> m, exc |-> ""]
  ELSE IF ~ws[n].ok THEN [m |-> m, exc |-> "AssertionError"]
  ELSE IF ws[n].g = 0 THEN StoreFrom(ws, n + 1, m)
  ELSE LET r == _store(m, ws[n].mv, ws[n].idx, ws[n].val)
       IN IF r.exc # "" THEN r ELSE StoreFrom(ws, n + 1, r.m)

\* lines 49-66
DoSTORE(c, m) ==
  IF isImage(dtp(c)[1]) /\ dtp(c)[3].count # 4 THEN Res(Raise(c, "AssertionError"), m)
  ELSE LET r == StoreFrom(Writes(c), 1, m)
       IN IF r.exc # "" THEN Res(Raise(c, r.exc), r.m)
          ELSE Res([c EXCEPT !.i = @ + 1], r.m)

\* ------------------------------------------------------------ control flow
\* lines 67-70
DoENDRANGE(c, m) ==
  Res([c EXCEPT !.loop_ends = Put(@, U(c.i).idp[1], c.i), !.i = U(c.i).idp[1]], m)

\* an IF that branches: when its condition is false in every lane the
\* instruction pointer goes to the ENDIF that names it
DoBARRIERBranching(c, m) ==
  LET cond == Lst(c, inp(c)[1])
      closes(p) == U(p).uop = "ENDIF" /\ U(p).idp = <<c.i>>
  IN IF /\ U(c.i).uop = "IF"
        /\ \A l \in 1..Len(cond) : cond[l].v = 0
        /\ \E p \in 0..(Len(uops) - 1) : closes(p)
     THEN Res([c EXCEPT !.i = CHOOSE p \in 0..(Len(uops) - 1) : closes(p)], m)
     ELSE Res([c EXCEPT !.i = @ + 1], m)

\* lines 71-74
DoBARRIER(c, m) == Res([c EXCEPT !.i = @ + 1], m)

\* a RANGE whose exit leaves the loop variable in the value table
DoRANGEKeepingVariable(c, m) ==
  IF c.i \notin DOMAIN c.ul
  THEN Res(Produce(c, Rep(Lst(c, inp(c)[1])[1], warp_size)), m)
  ELSE LET id == c.ul[c.i].v
           bumped == [j \in 1..Len(c.heap[id]) |-> S(c.heap[id][j].v + 1)]
           c1 == [c EXCEPT !.heap[id] = bumped]
       IN IF bumped[1] = Lst(c1, inp(c1)[2])[1]
          THEN IF c.i \notin DOMAIN c.loop_ends THEN Res(Raise(c1, "KeyError"), m)
               ELSE Res([c1 EXCEPT !.i = c.loop_ends[c.i] + 1], m)
          ELSE Res([c1 EXCEPT !.i = @ + 1], m)

\* a RANGE that tests the bound before it increments: the body runs once more,
\* with the loop variable at the bound
DoRANGEInclusive(c, m) ==
  IF c.i \notin DOMAIN c.ul
  THEN Res(Produce(c, Rep(Lst(c, inp(c)[1])[1], warp_size)), m)
  ELSE LET id == c.ul[c.i].v
           bumped == [j \in 1..Len(c.heap[id]) |-> S(c.heap[id][j].v + 1)]
           c1 == [c EXCEPT !.heap[id] = bumped]
       IN IF c.heap[id][1] = Lst(c, inp(c)[2])[1]
          THEN IF c.i \notin DOMAIN c.loop_ends THEN Res(Raise(c, "KeyError"), m)
               ELSE Res([c EXCEPT !.ul = Del(@, c.i), !.i = c.loop_ends[c.i] + 1], m)
          ELSE Res([c1 EXCEPT !.i = @ + 1], m)

\* lines 92-100
DoRANGE(c, m) ==
  IF c.i \notin DOMAIN c.ul
  THEN Res(Produce(c, Rep(Lst(c, inp(c)[1])[1], warp_size)), m)
  ELSE LET id == c.ul[c.i].v
           bumped == [j \in 1..Len(c.heap[id]) |-> S(c.heap[id][j].v + 1)]
           c1 == [c EXCEPT !.heap[id] = bumped]
       IN IF bumped[1] = Lst(c1, inp(c1)[2])[1]
          THEN IF c.i \notin DOMAIN c.loop_ends THEN Res(Raise(c1, "KeyError"), m)
               ELSE Res([c1 EXCEPT !.ul = Del(@, c.i), !.i = c.loop_ends[c.i] + 1], m)
          ELSE Res([c1 EXCEPT !.i = @ + 1], m)

\* ------------------------------------------------------------ definitions
\* lines 77-79
DoDEFINE_GLOBAL(c, m) ==
  IF FmtOf(U(c.i).dtype) = 0 THEN Res(Raise(c, "AssertionError"), m)
  ELSE IF c.pbufs = << >> THEN Res(Raise(c, "IndexError"), m)
  ELSE Res(Produce([c EXCEPT !.pbufs = Tail(@)],
                   Rep(M(Head(c.pbufs), FmtOf(U(c.i).dtype)), warp_size)), m)

\* one bytearray per DEFINE_LOCAL instruction, made once and handed out again:
\* the buffer holds what the last run left in it
lbufKept(c, m) ==
  LET old == {b \in 1..Len(m) : m[b].decl = c.i}
  IN IF old = {} THEN Buf(Rep(0, U(c.i).arg.n), c.i)
     ELSE m[CHOOSE b \in old : \A k \in old : k <= b]

\* line 82: memoryview(bytearray(arg[1]*dtype.itemsize)), as elements
lbuf(c, m) == Buf(Rep(0, U(c.i).arg.n), c.i)

\* a local buffer shared by the coordinates: the memoryview the instruction
\* made for an earlier coordinate is handed out again
DoDEFINE_LOCALShared(c, m) ==
  LET old == {b \in 1..Len(m) : m[b].decl = c.i}
  IN IF FmtOf(U(c.i).dtype) = 0 THEN Res(Raise(c, "AssertionError"), m)
     ELSE IF old = {}
     THEN Res(Produce(c, Rep(M(Len(m) + 1, FmtOf(U(c.i).dtype)), warp_size)),
              Append(m, Buf(Rep(0, U(c.i).arg.n), c.i)))
     ELSE Res(Produce(c, Rep(M(CHOOSE b \in old : TRUE, FmtOf(U(c.i).dtype)), warp_size)), m)

\* lines 80-83
DoDEFINE_LOCAL(c, m) ==
  IF FmtOf(U(c.i).dtype) = 0 THEN Res(Raise(c, "AssertionError"), m)
  ELSE Res(Produce(c, Rep(M(Len(m) + 1, FmtOf(U(c.i).dtype)), warp_size)),
           Append(m, lbuf(c, m)))

\* pvals.pop() for pvals.pop(0): the values are taken from the end
DoDEFINE_VARFromEnd(c, m) ==
  IF c.pvals = << >> THEN Res(Raise(c, "IndexError"), m)
  ELSE Res(Produce([c EXCEPT !.pvals = SubSeq(@, 1, Len(@) - 1)],
                   Rep(S(c.pvals[Len(c.pvals)]), warp_size)), m)

\* lines 84-85
DoDEFINE_VAR(c, m) ==
  IF c.pvals = << >> THEN Res(Raise(c, "IndexError"), m)
  ELSE Res(Produce([c EXCEPT !.pvals = Tail(@)], Rep(S(Head(c.pvals)), warp_size)), m)

\* SPECIAL reading the tuples of product from the front: axis 0 is the
\* slowest-varying component
DoSPECIALUnreversed(c, m) ==
  IF U(c.i).arg.s = "g" THEN Res(Produce(c, Rep(S(c.idxs[U(c.i).arg.n + 1]), warp_size)), m)
  ELSE IF U(c.i).arg.s = "l"
  THEN Res(Produce(c, [l \in 1..warp_size |-> S(warp[l][U(c.i).arg.n + 1])]), m)
  ELSE Res(Raise(c, "AssertionError"), m)

\* lines 86-88, 140: a SPECIAL that is neither global nor local leaves ul[i] unset
DoSPECIAL(c, m) ==
  IF U(c.i).arg.s = "g" THEN Res(Produce(c, Rep(S(c.idxs[3 - U(c.i).arg.n]), warp_size)), m)
  ELSE IF U(c.i).arg.s = "l"
  THEN Res(Produce(c, [l \in 1..warp_size |-> S(warp[l][3 - U(c.i).arg.n])]), m)
  ELSE Res(Raise(c, "AssertionError"), m)

\* line 89
DoCONST(c, m) == Res(Produce(c, Rep(S(U(c.i).arg.n), warp_size)), m)

\* a multi-component accumulator laid out lane by lane: warp_size lists of
\* dtype.count values
DoDEFINE_ACCLaneMajor(c, m) ==
  IF U(c.i).dtype.count > 1
  THEN LET seed == Lst(c, Lst(c, inp(c)[1])[1])[1]
           n == U(c.i).dtype.count
           c1 == [c EXCEPT !.heap = @ \o [j \in 1..warp_size |-> Rep(seed, n)]]
       IN Res(Produce(c1, [j \in 1..warp_size |-> L(Len(c.heap) + j)]), m)
  ELSE Res(Produce(c, Rep(Lst(c, inp(c)[1])[1], warp_size)), m)

\* lines 90-91
DoDEFINE_ACC(c, m) ==
  IF U(c.i).dtype.count > 1
  THEN LET seed == Lst(c, Lst(c, inp(c)[1])[1])[1]
           n == U(c.i).dtype.count
           c1 == [c EXCEPT !.heap = @ \o [j \in 1..n |-> Rep(seed, warp_size)]]
       IN Res(Produce(c1, [j \in 1..n |-> L(Len(c.heap) + j)]), m)
  ELSE Res(Produce(c, Rep(Lst(c, inp(c)[1])[1], warp_size)), m)

\* ------------------------------------------------------------ values
\* line 101: ul[i] = inp, the list of the operands' own lists
DoVECTORIZE(c, m) == Res(Produce(c, inp(c)), m)

\* dtypes.as_const(x, dtype) of an integer x: int(x), or bool(x) for a bool dtype
as_const(x, dt) == IF dt.kind = "bool" THEN (IF x # 0 THEN 1 ELSE 0) ELSE x

\* lines 108-110
overflow_adjust(dt) == IF ~is_unsigned(dt) THEN Pow2(dt.itemsize * 8 - 1) ELSE 0
\* a cast that saturates at the ends of the range
wrapSaturating(x, dt) ==
  LET lo == IF dt.kind = "uint" THEN 0 ELSE 0 - Pow2(dt.itemsize * 8 - 1)
      hi == IF dt.kind = "uint" THEN Pow2(dt.itemsize * 8) - 1 ELSE Pow2(dt.itemsize * 8 - 1) - 1
  IN IF x < lo THEN lo ELSE IF x > hi THEN hi ELSE x
wrap(x, dt) ==
  ((x + overflow_adjust(dt)) % Pow2(dt.itemsize * 8)) - overflow_adjust(dt)

\* lines 107-112, for one lane
casted(x, dt) == IF is_int(dt) THEN wrap(as_const(x, dt), dt) ELSE as_const(x, dt)

\* line 113: struct.pack then struct.unpack in the destination format; pack
\* raises struct.error for a number the format cannot hold
pack_ok(x, dt) == Fits(FmtOf(dt), x)

\* lines 102-113 (CAST)
DoCAST(c, m) ==
  LET dt == U(c.i).dtype
      src == Lst(c, inp(c)[1])
      out == [l \in 1..Len(src) |-> casted(src[l].v, dt)]
  IN IF FmtOf(dtp(c)[1]) = 0 \/ FmtOf(dt) = 0 THEN Res(Raise(c, "AssertionError"), m)
     ELSE IF Len(src) # warp_size \/ \E l \in 1..Len(src) : ~pack_ok(out[l], dt)
     THEN Res(Raise(c, "struct.error"), m)
     ELSE Res(Produce(c, [l \in 1..Len(src) |-> S(out[l])]), m)

\* ------------------------------------------------------------ LOAD
\* a load that bounds-checks the index of every lane, whatever its gate
loadCheckingEveryLane(m, ls, j) ==
  LET n == IF Len(ls) = 4
           THEN Min2(Min2(Len(ls[1]), Len(ls[2])), Min2(Len(ls[3]), Len(ls[4])))
           ELSE Min2(Len(ls[1]), Len(ls[2]))
      gated(l) == Len(ls) # 4 \/ ls[4][l].v # 0
      rd(l) == _load(m, ls[1][l], ls[2][l].v + j)
  IN IF \E l \in 1..n : rd(l).exc # ""
     THEN [exc |-> "IndexError", vals |-> << >>]
     ELSE [exc |-> "", vals |-> [l \in 1..n |-> IF gated(l) THEN S(rd(l).val) ELSE ls[3][l]]]

\* load(inp, j) of lines 19-21, on the lists ls of cells:
\* [exc |-> "" or the error raised, vals |-> the list returned]
load(m, ls, j) ==
  LET n == IF Len(ls) = 4
           THEN Min2(Min2(Len(ls[1]), Len(ls[2])), Min2(Len(ls[3]), Len(ls[4])))
           ELSE Min2(Len(ls[1]), Len(ls[2]))
      gated(l) == Len(ls) # 4 \/ ls[4][l].v # 0
      rd(l) == _load(m, ls[1][l], ls[2][l].v + j)
  IN IF \E l \in 1..n : gated(l) /\ rd(l).exc # ""
     THEN [exc |-> "IndexError", vals |-> << >>]
     ELSE [exc |-> "", vals |-> [l \in 1..n |-> IF gated(l) THEN S(rd(l).val) ELSE ls[3][l]]]

\* an image LOAD without the test of (x, y) against the shape: every lane
\* reads its offset
ImageRowUnchecked(c, m, j) ==
  LET m_ == Lst(c, inp(c)[1])
      ox == Lst(c, Lst(c, inp(c)[2])[1])
      oy == Lst(c, Lst(c, inp(c)[2])[2])
      shape == dtp(c)[1]
      n == Min2(Min2(Len(m_), Len(ox)), Len(oy))
      rd(l) == _load(m, m_[l], ox[l].v * 4 + oy[l].v * shape.w * 4 + j)
  IN IF \E l \in 1..n : rd(l).exc # "" THEN [exc |-> "IndexError", vals |-> << >>]
     ELSE [exc |-> "", vals |-> [l \in 1..n |-> S(rd(l).val)]]

\* lines 118-123, component j (from 0) of an image LOAD
ImageRow(c, m, j) ==
  LET m_ == Lst(c, inp(c)[1])
      ox == Lst(c, Lst(c, inp(c)[2])[1])
      oy == Lst(c, Lst(c, inp(c)[2])[2])
      shape == dtp(c)[1]
      n == Min2(Min2(Len(m_), Len(ox)), Len(oy))
      out(l) == ox[l].v < 0 \/ ox[l].v >= shape.w \/ oy[l].v < 0 \/ oy[l].v >= shape.h
      rd(l) == _load(m, m_[l], ox[l].v * 4 + oy[l].v * shape.w * 4 + j)
  IN IF \E l \in 1..n : ~out(l) /\ rd(l).exc # ""
     THEN [exc |-> "IndexError", vals |-> << >>]
     ELSE [exc |-> "", vals |-> [l \in 1..n |-> IF out(l) THEN S(0) ELSE S(rd(l).val)]]

\* line 125: the operands of component j (from 0) of a multi-component LOAD
ComponentInp(c, j) ==
  [n \in 1..Len(inp(c)) |->
     IF dtp(c)[n].count > 1 THEN Lst(c, Lst(c, inp(c)[n])[j + 1]) ELSE Lst(c, inp(c)[n])]

\* ul[i] = [row(0), .., row(count-1)], or the first error a row raises
ProduceRows(c, m, rows) ==
  IF \E j \in 1..Len(rows) : rows[j].exc # "" THEN Res(Raise(c, "IndexError"), m)
  ELSE LET c1 == [c EXCEPT !.heap = @ \o [j \in 1..Len(rows) |-> rows[j].vals]]
       IN Res(Produce(c1, [j \in 1..Len(rows) |-> L(Len(c.heap) + j)]), m)

\* lines 114-127
DoLOAD(c, m) ==
  LET dt == U(c.i).dtype
  IN IF isImage(dtp(c)[1])
     THEN IF dt.count # 4 THEN Res(Raise(c, "AssertionError"), m)
          ELSE ProduceRows(c, m, [j \in 1..dt.count |-> ImageRow(c, m, j - 1)])
     ELSE IF dt.count > 1
     THEN ProduceRows(c, m, [j \in 1..dt.count |-> load(m, ComponentInp(c, j - 1), j - 1)])
     ELSE LET r == load(m, [n \in 1..Len(inp(c)) |-> Lst(c, inp(c)[n])], 0)
          IN IF r.exc # "" THEN Res(Raise(c, r.exc), m) ELSE Res(Produce(c, r.vals), m)

\* ------------------------------------------------------------ ASSIGN, GEP, ALU
\* an ASSIGN that binds its own position to a copy of the source and leaves
\* the destination list as it is
DoASSIGNRebinding(c, m) ==
  LET src == Lst(c, inp(c)[2])
  IN IF Len(src) < Len(Lst(c, inp(c)[1])) THEN Res(Raise(c, "IndexError"), m)
     ELSE Res(Produce(c, src), m)

\* lines 128-130: the destination list is overwritten in place and ul[i] is
\* that same list
DoASSIGN(c, m) ==
  LET dst == inp(c)[1]
      src == Lst(c, inp(c)[2])
  IN IF Len(src) < Len(Lst(c, dst)) THEN Res(Raise(c, "IndexError"), m)
     ELSE Res(Bind([c EXCEPT !.heap[dst.v] = [j \in 1..Len(@) |-> src[j]]], dst), m)

\* lines 131-133
DoGEP(c, m) ==
  LET src == Lst(c, inp(c)[1])
  IN IF U(c.i).arg.n >= Len(src) THEN Res(Raise(c, "IndexError"), m)
     ELSE Res(Bind(c, src[U(c.i).arg.n + 1]), m)

\* tinygrad.ops.exec_alu(arg, dtype, p): the external arithmetic primitive, on
\* numbers that its truncation to dtype leaves unchanged
exec_alu(op, dt, a) ==
  CASE op = "ADD" -> a[1].v + a[2].v
    [] op = "MUL" -> a[1].v * a[2].v
    [] op = "CMPLT" -> IF a[1].v < a[2].v THEN 1 ELSE 0
    [] op = "CMPNE" -> IF a[1].v # a[2].v THEN 1 ELSE 0

\* lines 136-139
DoALU(c, m) ==
  LET ls == [n \in 1..Len(inp(c)) |-> Lst(c, inp(c)[n])]
      op == U(c.i).arg.s
  IN IF \E a, b \in 1..Len(ls) : Len(ls[a]) # Len(ls[b])
     THEN Res(Raise(c, "AssertionError"), m)
     ELSE IF (\E n \in 1..Len(ls) : dtp(c)[n] # U(c.i).dtype) /\ op \notin {"CMPNE", "CMPLT", "WHERE"}
     THEN Res(Raise(c, "AssertionError"), m)
     ELSE Res(Produce(c, [l \in 1..Len(ls[1]) |->
                            S(exec_alu(op, U(c.i).dtype, [n \in 1..Len(ls) |-> ls[n][l]]))]), m)

\* ------------------------------------------------------------ one instruction
\* lines 42-141: the instruction at c.i, on memory m
Exec(c, m) ==
  LET uop == U(c.i).uop
      typed == [c EXCEPT !.dl = Put(@, c.i, U(c.i).dtype)]
  IN IF ~Resolved(c) THEN Res(Raise(c, "KeyError"), m)
     ELSE IF uop = "STORE" THEN DoSTORE(c, m)
     ELSE IF uop = "ENDRANGE" THEN DoENDRANGE(c, m)
     ELSE IF uop \in {"BARRIER", "IF", "ENDIF"} THEN DoBARRIER(c, m)
     ELSE IF U(c.i).dtype.kind = "none" THEN Res(Raise(c, "AssertionError"), m)
     ELSE CASE uop = "DEFINE_GLOBAL" -> DoDEFINE_GLOBAL(typed, m)
            [] uop = "DEFINE_LOCAL" -> DoDEFINE_LOCAL(typed, m)
            [] uop = "DEFINE_VAR" -> DoDEFINE_VAR(typed, m)
            [] uop = "SPECIAL" -> DoSPECIAL(typed, m)
            [] uop = "CONST" -> DoCONST(typed, m)
            [] uop = "DEFINE_ACC" -> DoDEFINE_ACC(typed, m)
            [] uop = "RANGE" -> DoRANGE(typed, m)
            [] uop = "VECTORIZE" -> DoVECTORIZE(typed, m)
            [] uop = "CAST" -> DoCAST(typed, m)
            [] uop = "LOAD" -> DoLOAD(typed, m)
            [] uop = "ASSIGN" -> DoASSIGN(typed, m)
            [] uop = "GEP" -> DoGEP(typed, m)
            [] uop = "ALU" -> DoALU(typed, m)

\* ------------------------------------------------------------ programs
\* The programs and arguments the model is run on.  Positions are written
\* beside the instructions.
Const(n) == UOp("CONST", int32, << >>, "", n)
Alu(op, dt, a, b) == UOp("ALU", dt, <<a, b>>, op, 0)
Case(prog, m, v, gs, ls) ==
  [uops |-> prog, mem |-> m, vals |-> v, global_size |-> gs, local_size |-> ls]
Sizes == {<<1, 1, 1>>, <<2, 1, 1>>}

\* acc = 0; for r in range(s, N): acc = acc + 1; out[0] = acc
LoopProg(s, N) ==
  << Const(0),                                       \* 0
     Const(s),                                       \* 1
     Const(N),                                       \* 2
     Const(1),                                       \* 3
     UOp("DEFINE_ACC", int32, <<0, 5>>, "", 0),      \* 4
     UOp("RANGE", int32, <<1, 2>>, "", 0),           \* 5
     Alu("ADD", int32, 4, 3),                        \* 6
     UOp("ASSIGN", int32, <<4, 6>>, "", 0),          \* 7
     UOp("ENDRANGE", NoneT, <<5>>, "", 0),           \* 8
     UOp("DEFINE_GLOBAL", int32, << >>, "", 0),      \* 9
     UOp("STORE", NoneT, <<9, 0, 4>>, "", 0) >>      \* 10

LoopCases ==
  { Case(LoopProg(s, N), << Buf(<<0>>, -1) >>, << >>, gs, ls) :
      s \in 0..MaxN, N \in 0..MaxN, gs \in {<<1, 1, 1>>}, ls \in Sizes }

\* the lane widths of the memory programs
LaneSizes == {<<2, 1, 1>>, <<3, 1, 1>>}
\* the element indices a lane may be given; the out buffer has 3 elements
LaneIdx == {-1, 0, 1, 3}
Gates == {0, 1}
\* every sequence of n elements of set
Tuples(set, n) == [1..n -> set]
OutData == <<1, 2, 3>>

\* out[idx[lane]] = lane + 10 if gate[lane]; gated says whether the STORE
\* carries its fourth operand
StoreProg(gated) ==
  << UOp("DEFINE_GLOBAL", int32, << >>, "", 0),      \* 0 out
     UOp("DEFINE_GLOBAL", int32, << >>, "", 0),      \* 1 idx
     UOp("DEFINE_GLOBAL", boolT, << >>, "", 0),      \* 2 gate
     UOp("SPECIAL", int32, << >>, "l", 0),           \* 3 lane
     UOp("LOAD", int32, <<1, 3>>, "", 0),            \* 4 idx[lane]
     UOp("LOAD", boolT, <<2, 3>>, "", 0),            \* 5 gate[lane]
     Const(10),                                      \* 6
     Alu("ADD", int32, 3, 6),                        \* 7 lane + 10
     UOp("STORE", NoneT, IF gated THEN <<0, 4, 7, 5>> ELSE <<0, 4, 7>>, "", 0) >>

\* out[idx[lane] + 0] = lane + 10; out[idx[lane] + 1] = lane + 20 if gate[lane]
VectorStoreProg ==
  SubSeq(StoreProg(TRUE), 1, 8) \o
  << Alu("ADD", int32, 7, 6),                                  \* 8 lane + 20
     UOp("VECTORIZE", vec(int32, 2), <<7, 8>>, "", 0),         \* 9
     UOp("STORE", NoneT, <<0, 4, 9, 5>>, "", 0) >>             \* 10

\* the image form: the out buffer is an image of height 1 and width 2 and
\* lane writes the texel (idx[lane], y); y is the caller's scalar value
ImageStoreProg ==
  << UOp("DEFINE_GLOBAL", imagef(1, 2), << >>, "", 0),         \* 0 out
     UOp("DEFINE_GLOBAL", int32, << >>, "", 0),                \* 1 idx
     UOp("DEFINE_GLOBAL", boolT, << >>, "", 0),                \* 2 gate
     UOp("SPECIAL", int32, << >>, "l", 0),                     \* 3 lane
     UOp("LOAD", int32, <<1, 3>>, "", 0),                      \* 4 x = idx[lane]
     UOp("LOAD", boolT, <<2, 3>>, "", 0),                      \* 5 gate[lane]
     UOp("DEFINE_VAR", int32, << >>, "", 0),                   \* 6 y
     UOp("VECTORIZE", vec(int32, 2), <<4, 6>>, "", 0),         \* 7 (x, y)
     Const(10),                                                \* 8
     Alu("ADD", int32, 3, 8),                                  \* 9 lane + 10
     Alu("ADD", int32, 9, 8),                                  \* 10 lane + 20
     UOp("VECTORIZE", vec(int32, 4), <<9, 10, 8, 9>>, "", 0),  \* 11
     UOp("STORE", NoneT, <<0, 7, 11, 5>>, "", 0) >>            \* 12
ImageData == <<1, 2, 3, 4, 5, 6, 7, 8>>

StoreCases(progs, n) ==
  { Case(prog, << Buf(OutData, -1), Buf(idx, -1), Buf(g, -1) >>, << >>, <<1, 1, 1>>, <<n, 1, 1>>) :
      prog \in progs, idx \in Tuples(LaneIdx, n), g \in Tuples(Gates, n) }

\* the image buffer holds its 1 x 2 texels, or (a caller's error) only one
ImageStoreCases(n) ==
  { Case(ImageStoreProg, << Buf(img, -1), Buf(idx, -1), Buf(g, -1) >>, <<y>>, <<1, 1, 1>>, <<n, 1, 1>>) :
      img \in {ImageData, SubSeq(ImageData, 1, 4)}, y \in {0, 1},
      idx \in Tuples(LaneIdx, n), g \in Tuples(Gates, n) }

\* v = src[idx[lane]] if gate[lane] else 77; form is "plain" (two operands),
\* "gated" (four operands) or "vector" (two components, four operands)
LoadProg(form) ==
  << UOp("DEFINE_GLOBAL", int32, << >>, "", 0),      \* 0 src
     UOp("DEFINE_GLOBAL", int32, << >>, "", 0),      \* 1 idx
     UOp("DEFINE_GLOBAL", boolT, << >>, "", 0),      \* 2 gate
     UOp("SPECIAL", int32, << >>, "l", 0),           \* 3 lane
     UOp("LOAD", int32, <<1, 3>>, "", 0),            \* 4 idx[lane]
     UOp("LOAD", boolT, <<2, 3>>, "", 0),            \* 5 gate[lane]
     Const(77),                                      \* 6
     UOp("VECTORIZE", vec(int32, 2), <<6, 3>>, "", 0),   \* 7 (77, lane)
     IF form = "plain" THEN UOp("LOAD", int32, <<0, 4>>, "", 0)
     ELSE IF form = "gated" THEN UOp("LOAD", int32, <<0, 4, 6, 5>>, "", 0)
     ELSE UOp("LOAD", vec(int32, 2), <<0, 4, 7, 5>>, "", 0),       \* 8
     UOp("GEP", int32, <<7>>, "", 1) >>              \* 9 component 1 of (77, lane)

\* texel (idx[lane], y) of an image of height 2 and width 1
ImageLoadProg ==
  << UOp("DEFINE_GLOBAL", imagef(2, 1), << >>, "", 0),         \* 0 image
     UOp("DEFINE_GLOBAL", int32, << >>, "", 0),                \* 1 idx
     UOp("SPECIAL", int32, << >>, "l", 0),                     \* 2 lane
     UOp("LOAD", int32, <<1, 2>>, "", 0),                      \* 3 x = idx[lane]
     UOp("DEFINE_VAR", int32, << >>, "", 0),                   \* 4 y
     UOp("VECTORIZE", vec(int32, 2), <<3, 4>>, "", 0),         \* 5 (x, y)
     UOp("LOAD", vec(int32, 4), <<0, 5>>, "", 0) >>            \* 6

LoadCases(n) ==
  { Case(LoadProg(form), << Buf(OutData, -1), Buf(idx, -1), Buf(g, -1) >>, << >>, <<1, 1, 1>>, <<n, 1, 1>>) :
      form \in {"plain", "gated", "vector"},
      idx \in Tuples(LaneIdx, n), g \in Tuples(Gates, n) }

ImageLoadCases(n) ==
  { Case(ImageLoadProg, << Buf(img, -1), Buf(idx, -1) >>, <<y>>, <<1, 1, 1>>, <<n, 1, 1>>) :
      img \in {ImageData, SubSeq(ImageData, 1, 4)}, y \in -1..2,
      idx \in Tuples({-1, 0, 1}, n) }

MemoryCases ==
  StoreCases({StoreProg(TRUE), StoreProg(FALSE), VectorStoreProg}, 2)
  \cup StoreCases({StoreProg(TRUE)}, 3)
  \cup ImageStoreCases(2)
  \cup LoadCases(2)
  \cup ImageLoadCases(2)

\* local[0] is read, then written, by every coordinate:
\* out[g0] = local[0]; local[0] = g0 + 5
LocalProg ==
  << UOp("DEFINE_LOCAL", int32, << >>, "", 2),       \* 0 local, 2 elements
     UOp("DEFINE_GLOBAL", int32, << >>, "", 0),      \* 1 out
     UOp("SPECIAL", int32, << >>, "g", 0),           \* 2 g0
     Const(0),                                       \* 3
     UOp("LOAD", int32, <<0, 3>>, "", 0),            \* 4 local[0]
     UOp("STORE", NoneT, <<1, 2, 4>>, "", 0),        \* 5 out[g0] = local[0]
     Const(5),                                       \* 6
     Alu("ADD", int32, 2, 6),                        \* 7 g0 + 5
     UOp("STORE", NoneT, <<0, 3, 7>>, "", 0),        \* 8 local[0] = g0 + 5
     UOp("BARRIER", NoneT, <<8>>, "", 0),            \* 9
     UOp("LOAD", int32, <<0, 3>>, "", 0) >>          \* 10 local[0]

LocalCases ==
  { Case(LocalProg, << Buf(<<9, 9, 9>>, -1) >>, << >>, gs, ls) :
      gs \in {<<1, 1, 1>>, <<2, 1, 1>>, <<3, 1, 1>>, <<1, 2, 1>>}, ls \in Sizes }

\* (x + lane) cast to dt
CastProg(dt) ==
  << UOp("DEFINE_VAR", int32, << >>, "", 0),         \* 0 x
     UOp("SPECIAL", int32, << >>, "l", 0),           \* 1 lane
     Alu("ADD", int32, 0, 1),                        \* 2 x + lane
     UOp("CAST", dt, <<2>>, "", 0) >>                \* 3

\* numbers around the ends of the 16-bit ranges
WideInts ==
  {-65537, -65536, -65535, -32769, -32768, -32767, 32766, 32767, 32768, 65534, 65535, 65536}

CastCases ==
  { Case(CastProg(dt), << >>, <<x>>, <<1, 1, 1>>, <<2, 1, 1>>) :
      dt \in {int8, uint8}, x \in (0 - MaxCast)..MaxCast }
  \cup
  { Case(CastProg(dt), << >>, <<x>>, <<1, 1, 1>>, <<2, 1, 1>>) :
      dt \in {int16, uint16, boolT}, x \in WideInts \cup (-1..1) }

\* if cond: out[lane] = 7
IfProg ==
  << UOp("DEFINE_GLOBAL", int32, << >>, "", 0),      \* 0 out
     UOp("DEFINE_VAR", boolT, << >>, "", 0),         \* 1 cond
     UOp("SPECIAL", int32, << >>, "l", 0),           \* 2 lane
     Const(7),                                       \* 3
     UOp("IF", NoneT, <<1>>, "", 0),                 \* 4
     UOp("STORE", NoneT, <<0, 2, 3>>, "", 0),        \* 5 out[lane] = 7
     UOp("BARRIER", NoneT, <<5>>, "", 0),            \* 6
     UOp("ENDIF", NoneT, <<4>>, "", 0) >>            \* 7

IfCases ==
  { Case(IfProg, << Buf(OutData, -1) >>, <<cond>>, <<1, 1, 1>>, ls) :
      cond \in {0, 1}, ls \in LaneSizes }

\* out[g0] = 7, then an instruction that fails: in the coordinates after the
\* first ("oob": a LOAD of out[3 * g0]), or in every coordinate
ErrorProg(kind) ==
  << UOp("DEFINE_GLOBAL", int32, << >>, "", 0),      \* 0 out
     UOp("SPECIAL", int32, << >>, "g", 0),           \* 1 g0
     Const(7),                                       \* 2
     UOp("STORE", NoneT, <<0, 1, 2>>, "", 0),        \* 3 out[g0] = 7
     Const(3),                                       \* 4
     Alu("MUL", int32, 1, 4),                        \* 5 3 * g0
     CASE kind = "oob" -> UOp("LOAD", int32, <<0, 5>>, "", 0)
       [] kind = "type" -> UOp("CONST", NoneT, << >>, "", 1)
       [] kind = "shape" -> UOp("ALU", boolT, <<1, 4>>, "ADD", 0)
       [] kind = "layout" -> UOp("CAST", vec(int32, 2), <<1>>, "", 0)
       [] kind = "unresolved" -> Alu("ADD", int32, 1, 7),       \* 6
     Const(1) >>                                     \* 7

ErrorCases ==
  { Case(ErrorProg(kind), << Buf(OutData, -1) >>, << >>, gs, ls) :
      kind \in {"oob", "type", "shape", "layout", "unresolved"},
      gs \in {<<1, 1, 1>>, <<2, 1, 1>>}, ls \in Sizes }

\* coordinate g0 fills its own stripe out[2*g0], out[2*g0 + 1]:
\* k = g0 + 100; acc = n * k; out[2*g0] = int8(acc); out[2*g0 + 1] = k;
\* local[0] = out[2*g0 + 1]
StripeProg ==
  << UOp("DEFINE_GLOBAL", int32, << >>, "", 0),      \* 0 out
     UOp("DEFINE_VAR", int32, << >>, "", 0),         \* 1 n
     UOp("SPECIAL", int32, << >>, "g", 0),           \* 2 g0
     Const(0),                                       \* 3
     Const(100),                                     \* 4
     Alu("ADD", int32, 2, 4),                        \* 5 k = g0 + 100
     UOp("DEFINE_ACC", int32, <<3, 7>>, "", 0),      \* 6 acc = 0
     UOp("RANGE", int32, <<3, 1>>, "", 0),           \* 7 for r in 0..n-1
     Alu("ADD", int32, 6, 5),                        \* 8 acc + k
     UOp("ASSIGN", int32, <<6, 8>>, "", 0),          \* 9 acc = acc + k
     UOp("ENDRANGE", NoneT, <<7>>, "", 0),           \* 10
     UOp("CAST", int8, <<6>>, "", 0),                \* 11 int8(acc)
     Alu("ADD", int32, 2, 2),                        \* 12 2 * g0
     UOp("VECTORIZE", vec(int32, 2), <<11, 5>>, "", 0),   \* 13 (int8(acc), k)
     UOp("STORE", NoneT, <<0, 12, 13>>, "", 0),      \* 14 out[2*g0 ..] = (int8(acc), k)
     UOp("LOAD", vec(int32, 2), <<0, 12>>, "", 0),   \* 15 out[2*g0 ..]
     UOp("GEP", int32, <<15>>, "", 1),               \* 16 out[2*g0 + 1]
     UOp("DEFINE_LOCAL", int32, << >>, "", 1),       \* 17 local, 1 element
     UOp("STORE", NoneT, <<17, 3, 16>>, "", 0),      \* 18 local[0] = out[2*g0 + 1]
     UOp("BARRIER", NoneT, <<18>>, "", 0) >>         \* 19

\* every coordinate stores its g0 into out[0]
RaceProg ==
  << UOp("DEFINE_GLOBAL", int32, << >>, "", 0),      \* 0 out
     UOp("SPECIAL", int32, << >>, "g", 0),           \* 1 g0
     Const(0),                                       \* 2
     UOp("STORE", NoneT, <<0, 2, 1>>, "", 0) >>      \* 3 out[0] = g0

AnyOrderCases ==
  { Case(StripeProg, << Buf(<<9, 9, 9, 9>>, -1) >>, <<n>>, <<2, 1, 1>>, ls) :
      n \in 1..2, ls \in Sizes }
  \cup { Case(LocalProg, << Buf(<<9, 9, 9>>, -1) >>, << >>, gs, <<1, 1, 1>>) :
           gs \in {<<2, 1, 1>>, <<3, 1, 1>>} }
  \cup { Case(RaceProg, << Buf(<<9>>, -1) >>, << >>, <<2, 1, 1>>, <<1, 1, 1>>) }
  \cup { Case(ErrorProg(kind), << Buf(OutData, -1) >>, << >>, <<2, 1, 1>>, <<1, 1, 1>>) :
           kind \in {"oob", "type"} }

\* the programs without an out-of-range index, every kind of instruction
\* among them, the loops with every start and bound up to MaxN
InRangeCases ==
  LoopCases \cup {cs \in AnyOrderCases : cs.uops \in {StripeProg, LocalProg, RaceProg}}

\* every coordinate counts itself: out[g0 + 2*g1 + 4*g2] += 1; then the lane's
\* three local indices
GridProg ==
  << UOp("DEFINE_GLOBAL", int32, << >>, "", 0),      \* 0 out
     UOp("SPECIAL", int32, << >>, "g", 0),           \* 1 g0
     UOp("SPECIAL", int32, << >>, "g", 1),           \* 2 g1
     UOp("SPECIAL", int32, << >>, "g", 2),           \* 3 g2
     Const(2),                                       \* 4
     Alu("MUL", int32, 2, 4),                        \* 5 2*g1
     Alu("ADD", int32, 1, 5),                        \* 6 g0 + 2*g1
     Alu("MUL", int32, 4, 4),                        \* 7 4
     Alu("MUL", int32, 3, 7),                        \* 8 4*g2
     Alu("ADD", int32, 6, 8),                        \* 9 g0 + 2*g1 + 4*g2
     UOp("LOAD", int32, <<0, 9>>, "", 0),            \* 10 out[...]
     Const(1),                                       \* 11
     Alu("ADD", int32, 10, 11),                      \* 12 out[...] + 1
     UOp("STORE", NoneT, <<0, 9, 12>>, "", 0),       \* 13 out[...] += 1
     UOp("SPECIAL", int32, << >>, "l", 0),           \* 14 l0
     UOp("SPECIAL", int32, << >>, "l", 1),           \* 15 l1
     UOp("SPECIAL", int32, << >>, "l", 2) >>         \* 16 l2

\* the sizes of a grid: every component from lo to 2
Grids(lo) == { <<a, b, c>> : a \in lo..2, b \in lo..2, c \in lo..2 }
GridCases ==
  { Case(GridProg, << Buf(Rep(0, 8), -1) >>, << >>, gs, <<1, 1, 1>>) : gs \in Grids(0) }
  \cup { Case(GridProg, << Buf(Rep(0, 8), -1) >>, << >>, <<2, 1, 1>>, ls) :
           ls \in Grids(1) \cup {<<3, 2, 1>>, <<1, 3, 2>>} }

\* a two-component accumulator: acc = (5, 5); acc = (acc.1 + 6, 5);
\* out[lane] = acc.0
VecAccProg ==
  << Const(5),                                       \* 0
     Const(6),                                       \* 1
     UOp("VECTORIZE", vec(int32, 2), <<0, 1>>, "", 0),    \* 2 (5, 6)
     UOp("DEFINE_ACC", vec(int32, 2), <<2>>, "", 0),      \* 3 acc = (5, 5)
     UOp("GEP", int32, <<3>>, "", 1),                \* 4 acc.1
     Alu("ADD", int32, 4, 1),                        \* 5 acc.1 + 6
     UOp("VECTORIZE", vec(int32, 2), <<5, 0>>, "", 0),    \* 6 (acc.1 + 6, 5)
     UOp("ASSIGN", vec(int32, 2), <<3, 6>>, "", 0),  \* 7 acc = (acc.1 + 6, 5)
     UOp("GEP", int32, <<3>>, "", 0),                \* 8 acc.0
     UOp("DEFINE_GLOBAL", int32, << >>, "", 0),      \* 9 out
     UOp("SPECIAL", int32, << >>, "l", 0),           \* 10 lane
     UOp("STORE", NoneT, <<9, 10, 8>>, "", 0) >>     \* 11 out[lane] = acc.0

VecAccCases ==
  { Case(VecAccProg, << Buf(<<0, 0, 0>>, -1) >>, << >>, <<1, 1, 1>>, ls) :
      ls \in {<<1, 1, 1>>, <<2, 1, 1>>, <<3, 1, 1>>} }

\* two buffers and two scalar values, defined in turn: a[g0] = x; b[g0] = y
ArgsProg ==
  << UOp("DEFINE_GLOBAL", int32, << >>, "", 0),      \* 0 a
     UOp("DEFINE_VAR", int32, << >>, "", 0),         \* 1 x
     UOp("DEFINE_GLOBAL", int32, << >>, "", 0),      \* 2 b
     UOp("DEFINE_VAR", int32, << >>, "", 0),         \* 3 y
     UOp("SPECIAL", int32, << >>, "g", 0),           \* 4 g0
     UOp("STORE", NoneT, <<0, 4, 1>>, "", 0),        \* 5 a[g0] = x
     UOp("STORE", NoneT, <<2, 4, 3>>, "", 0) >>      \* 6 b[g0] = y

ArgsCases ==
  { Case(ArgsProg, << Buf(<<0, 0, 0>>, -1), Buf(<<9, 9, 9>>, -1) >>, <<x, y>>, gs, ls) :
      x \in 4..5, y \in 4..6, gs \in {<<1, 1, 1>>, <<2, 1, 1>>, <<3, 1, 1>>}, ls \in Sizes }

\* a loop inside a loop, its body adding 1 to the accumulator
NestedProg(s1, b1, s2, b2) ==
  << Const(0),                                       \* 0
     Const(s1),                                      \* 1
     Const(b1),                                      \* 2
     Const(s2),                                      \* 3
     Const(b2),                                      \* 4
     Const(1),                                       \* 5
     UOp("DEFINE_ACC", int32, <<0, 7, 8>>, "", 0),   \* 6
     UOp("RANGE", int32, <<1, 2>>, "", 0),           \* 7
     UOp("RANGE", int32, <<3, 4>>, "", 0),           \* 8
     Alu("ADD", int32, 6, 5),                        \* 9
     UOp("ASSIGN", int32, <<6, 9>>, "", 0),          \* 10
     UOp("ENDRANGE", NoneT, <<8>>, "", 0),           \* 11
     UOp("ENDRANGE", NoneT, <<7>>, "", 0),           \* 12
     UOp("DEFINE_GLOBAL", int32, << >>, "", 0),      \* 13
     UOp("STORE", NoneT, <<13, 0, 6>>, "", 0) >>     \* 14

NestedCases ==
  { Case(NestedProg(s1, b1, s2, b2), << Buf(<<0>>, -1) >>, << >>, <<1, 1, 1>>, ls) :
      s1 \in 0..MaxN, b1 \in 0..MaxN, s2 \in 1..MaxN, b2 \in 1..MaxN, ls \in Sizes }

\* for r in range(0, 2): pass; then an instruction that names the loop variable
AfterLoopProg(kind) ==
  << Const(0),                                       \* 0
     Const(2),                                       \* 1
     UOp("RANGE", int32, <<0, 1>>, "", 0),           \* 2
     UOp("ENDRANGE", NoneT, <<2>>, "", 0),           \* 3
     UOp("DEFINE_GLOBAL", int32, << >>, "", 0),      \* 4
     CASE kind = "alu" -> Alu("ADD", int32, 2, 0)
       [] kind = "store" -> UOp("STORE", NoneT, <<4, 0, 2>>, "", 0)
       [] kind = "endrange" -> UOp("ENDRANGE", NoneT, <<2>>, "", 0) >>   \* 5

AfterLoopCases ==
  { Case(AfterLoopProg(kind), << Buf(OutData, -1) >>, << >>, gs, ls) :
      kind \in {"alu", "store", "endrange"},
      gs \in {<<1, 1, 1>>, <<2, 1, 1>>}, ls \in Sizes }

Cases ==
  LoopCases \cup MemoryCases \cup LocalCases \cup CastCases \cup IfCases \cup ErrorCases
  \cup GridCases \cup VecAccCases \cup ArgsCases \cup NestedCases
  \cup AfterLoopCases

\* ------------------------------------------------------------ the call
\* __call__ is entered with one of cases as its program and arguments: line 34
\* is about to yield the first coordinate
InitOn(cases) ==
  /\ \E cs \in cases :
       /\ uops = cs.uops
       /\ mem = cs.mem
       /\ vals = cs.vals
       /\ global_size = cs.global_size
       /\ local_size = cs.local_size
  /\ bufs = [b \in 1..Len(mem) |-> b]
  /\ mem0 = mem
  /\ coords = product(global_size)
  /\ idxs = <<0, 0, 0>>
  /\ ul = EmptyDict /\ dl = EmptyDict /\ loop_ends = EmptyDict
  /\ pbufs = << >> /\ pvals = << >> /\ i = 0 /\ heap = << >>
  /\ parked = {}
  /\ pc = "for" /\ exc = ""

Init == InitOn(Cases)

\* the effect of one instruction on the variables; an exception ends the call
Commit(r) ==
  /\ mem' = r.m
  /\ ul' = r.c.ul /\ dl' = r.c.dl /\ pbufs' = r.c.pbufs /\ pvals' = r.c.pvals
  /\ i' = r.c.i /\ loop_ends' = r.c.loop_ends /\ heap' = r.c.heap
  /\ exc' = r.c.exc
  /\ pc' = IF r.c.exc # "" THEN "raised" ELSE pc
  /\ UNCHANGED <<uops, bufs, vals, global_size, local_size, mem0, coords, idxs, parked>>

\* line 41 holds and line 42 reads an instruction of kind in ks
At(ks) == pc = "run" /\ i < Len(uops) /\ U(i).uop \in ks

\* the context made once, before the for loop: a coordinate's run begins with
\* the tables the run before it left
NextCoordinateKeepingContext ==
  /\ pc = "for" /\ coords # << >>
  /\ idxs' = Head(coords) /\ coords' = Tail(coords)
  /\ pbufs' = bufs /\ pvals' = vals /\ i' = 0
  /\ pc' = "run"
  /\ UNCHANGED <<uops, bufs, vals, global_size, local_size, mem, mem0, parked, exc,
                 ul, dl, loop_ends, heap>>

\* lines 34-40: the for loop yields the next coordinate and a new context
NextCoordinate ==
  /\ pc = "for" /\ coords # << >>
  /\ idxs' = Head(coords) /\ coords' = Tail(coords)
  /\ ul' = EmptyDict /\ dl' = EmptyDict /\ loop_ends' = EmptyDict
  /\ pbufs' = bufs /\ pvals' = vals /\ i' = 0 /\ heap' = << >>
  /\ pc' = "run"
  /\ UNCHANGED <<uops, bufs, vals, global_size, local_size, mem, mem0, parked, exc>>

\* line 41: the while loop ends, back to the for loop
EndWhile ==
  /\ pc = "run" /\ i >= Len(uops)
  /\ pc' = "for"
  /\ UNCHANGED <<uops, bufs, vals, global_size, local_size, mem, mem0, coords, idxs,
                 ul, dl, pbufs, pvals, i, loop_ends, heap, parked, exc>>

\* line 142: the for loop is exhausted
Return ==
  /\ pc = "for" /\ coords = << >>
  /\ pc' = "returned"
  /\ UNCHANGED <<uops, bufs, vals, global_size, local_size, mem, mem0, coords, idxs,
                 ul, dl, pbufs, pvals, i, loop_ends, heap, parked, exc>>

\* the model's horizon: a loop variable is not incremented beyond MaxInt
WithinHorizon ==
  i \in DOMAIN ul => \A j \in 1..Len(heap[ul[i].v]) : heap[ul[i].v][j].v < MaxInt

ExecSTORE == At({"STORE"}) /\ Commit(Exec(Ctx, mem))
ExecENDRANGE == At({"ENDRANGE"}) /\ Commit(Exec(Ctx, mem))
ExecBARRIER == At({"BARRIER", "IF", "ENDIF"}) /\ Commit(Exec(Ctx, mem))
ExecDEFINE_GLOBAL == At({"DEFINE_GLOBAL"}) /\ Commit(Exec(Ctx, mem))
ExecDEFINE_LOCAL == At({"DEFINE_LOCAL"}) /\ Commit(Exec(Ctx, mem))
ExecDEFINE_VAR == At({"DEFINE_VAR"}) /\ Commit(Exec(Ctx, mem))
ExecSPECIAL == At({"SPECIAL"}) /\ Commit(Exec(Ctx, mem))
ExecCONST == At({"CONST"}) /\ Commit(Exec(Ctx, mem))
ExecDEFINE_ACC == At({"DEFINE_ACC"}) /\ Commit(Exec(Ctx, mem))
ExecRANGE == At({"RANGE"}) /\ WithinHorizon /\ Commit(Exec(Ctx, mem))
ExecVECTORIZE == At({"VECTORIZE"}) /\ Commit(Exec(Ctx, mem))
ExecCAST == At({"CAST"}) /\ Commit(Exec(Ctx, mem))
ExecLOAD == At({"LOAD"}) /\ Commit(Exec(Ctx, mem))
ExecASSIGN == At({"ASSIGN"}) /\ Commit(Exec(Ctx, mem))
ExecGEP == At({"GEP"}) /\ Commit(Exec(Ctx, mem))
ExecALU == At({"ALU"}) /\ Commit(Exec(Ctx, mem))

Next ==
  \/ NextCoordinate \/ EndWhile \/ Return
  \/ ExecSTORE \/ ExecENDRANGE \/ ExecBARRIER
  \/ ExecDEFINE_GLOBAL \/ ExecDEFINE_LOCAL \/ ExecDEFINE_VAR \/ ExecSPECIAL
  \/ ExecCONST \/ ExecDEFINE_ACC \/ ExecRANGE \/ ExecVECTORIZE \/ ExecCAST
  \/ ExecLOAD \/ ExecASSIGN \/ ExecGEP \/ ExecALU

Spec == Init /\ [][Next]_vars
\* the sequential interpreter always takes its next step; the programs are
\* those without an out-of-range index
FairSpec == InitOn(InRangeCases) /\ [][Next]_vars /\ WF_vars(Next)

\* ------------------------------------------------------------ observations
\* the lane list held at position p of the value table
LaneList(p) == heap[ul[p].v]
\* the position of the only instruction of kind k
PosOf(k) == CHOOSE p \in 0..(Len(uops) - 1) : U(p).uop = k
\* line 41 has just failed: the instruction pointer passed the last instruction
Passed == pc = "run" /\ i >= Len(uops)
Ended == pc \in {"returned", "raised"}

\* ------------------------------------------------------------ claims
\* C1: for the one-loop program (RANGE from the constant 0 to the constant N,
\* body acc = acc + 1 through ASSIGN) the accumulator is N in every lane when
\* the instruction pointer passes the last instruction, and for N = 0 the
\* body (its ASSIGN) is never executed.
C1_LoopCountsToN ==
  \A N \in 0..MaxN :
    uops = LoopProg(0, N) =>
      /\ Passed => \A l \in 1..warp_size : LaneList(PosOf("DEFINE_ACC"))[l] = S(N)
      /\ (N = 0 /\ pc = "run") => PosOf("ASSIGN") \notin DOMAIN ul

WritesAt(p) == Writes([Ctx EXCEPT !.i = p])
\* the gated-on writes among ws that address element e (from 1) of buffer b
Hits(ws, b, e) == {n \in 1..Len(ws) : ws[n].g # 0 /\ ws[n].mv.v = b /\ ws[n].idx + 1 = e}
MaxOf(set) == CHOOSE n \in set : \A k \in set : k <= n
\* a STORE step that did not raise
StoreDone == At({"STORE"}) /\ exc' = ""
\* what a STORE must leave alone: the value table, the lists it refers to, the
\* type table, the loop table, the cursors, and the number and size of buffers
StoreFrame ==
  /\ ul' = ul /\ heap' = heap /\ dl' = dl /\ loop_ends' = loop_ends
  /\ pbufs' = pbufs /\ pvals' = pvals
  /\ Len(mem') = Len(mem)
  /\ \A b \in 1..Len(mem) : Len(mem'[b].data) = Len(mem[b].data)

Access(mv, idx, g, outside) == [mv |-> mv, idx |-> idx, g |-> g, outside |-> outside]

\* the accesses of the image LOAD at c.i, component after component
ImageReads(c) ==
  LET m_ == Lst(c, inp(c)[1])
      ox == Lst(c, Lst(c, inp(c)[2])[1])
      oy == Lst(c, Lst(c, inp(c)[2])[2])
      wd == dtp(c)[1].w
      ht == dtp(c)[1].h
  IN Flatten([j \in 1..4 |-> [l \in 1..Len(m_) |->
        Access(m_[l], ox[l].v * 4 + oy[l].v * wd * 4 + (j - 1), TRUE,
               ox[l].v < 0 \/ ox[l].v >= wd \/ oy[l].v < 0 \/ oy[l].v >= ht)]], 4)

\* the accesses of the LOAD at c.i that is not an image load
BufferReads(c) ==
  LET n == U(c.i).dtype.count
      idx == Lst(c, inp(c)[2])
      m_ == Lst(c, inp(c)[1])
      on(l) == Len(inp(c)) # 4 \/ Lst(c, inp(c)[4])[l].v # 0
  IN Flatten([j \in 1..n |-> [l \in 1..Len(m_) |->
        Access(m_[l], idx[l].v + (j - 1), on(l), FALSE)]], n)

\* the accesses of the LOAD or STORE at position i
Accesses ==
  IF U(i).uop = "STORE"
  THEN [n \in 1..Len(WritesAt(i)) |->
          Access(WritesAt(i)[n].mv, WritesAt(i)[n].idx, WritesAt(i)[n].g # 0, FALSE)]
  ELSE IF isImage(dtp(Ctx)[1]) THEN ImageReads(Ctx)
  ELSE BufferReads(Ctx)

OutOfRange(a) == a.idx < 0 \/ a.idx >= Len(mem[a.mv.v].data)
\* a LOAD or STORE is about to run and its operands resolve
MemoryStep == At({"LOAD", "STORE"}) /\ Resolved(Ctx)
\* the call raised an out-of-bounds error: the IndexError of _load and _store,
\* or the assertion of an image STORE on its (x, y)
RaisedOutOfBounds == pc' = "raised" /\ exc' \in {"IndexError", "AssertionError"}
\* memory differs only where a gated-on, in-range access of this step points
OnlyInRangeWrites ==
  \A b \in 1..Len(mem) : \A e \in 1..Len(mem[b].data) :
    mem'[b].data[e] # mem[b].data[e] =>
      \E n \in 1..Len(Accesses) :
        Accesses[n].g /\ Accesses[n].mv.v = b /\ Accesses[n].idx + 1 = e

\* C6 as stated: a LOAD or STORE with a lane whose element index is outside its
\* buffer aborts the call, image loads outside the image's shape excepted.
C6_EveryLaneChecked ==
  [][(MemoryStep /\ \E n \in 1..Len(Accesses) :
                       ~Accesses[n].outside /\ OutOfRange(Accesses[n]))
       => pc' = "raised"]_vars

\* C6 as amended: a LOAD or STORE with a lane whose gate is true (or that has
\* no gate) and whose element index is outside its buffer aborts the call with
\* an out-of-bounds error, produces no value, and changes memory only through
\* its in-range accesses; exempt are image loads outside the image's shape and
\* lanes whose gate is false, which are not bounds-checked.
C6_GatedLanesChecked ==
  [][(MemoryStep /\ \E n \in 1..Len(Accesses) :
                       Accesses[n].g /\ ~Accesses[n].outside /\ OutOfRange(Accesses[n]))
       => /\ RaisedOutOfBounds
          /\ i \notin DOMAIN ul'
          /\ Len(mem') = Len(mem)
          /\ \A b \in 1..Len(mem) : Len(mem'[b].data) = Len(mem[b].data)
          /\ OnlyInRangeWrites]_vars

\* a STORE raised IndexError for a gated-on lane with a negative index, after
\* another lane had written
C6_Witness ==
  /\ pc = "raised" /\ exc = "IndexError" /\ U(i).uop = "STORE"
  /\ \E n \in 1..Len(Accesses) : Accesses[n].g /\ Accesses[n].idx < 0
  /\ mem # mem0

\* an image LOAD has just completed at position p
ImageLoaded(p) ==
  /\ pc = "run" /\ p >= 0 /\ p < Len(uops) /\ i = p + 1 /\ U(p).uop = "LOAD"
  /\ isImage(dl[U(p).idp[1]])
\* texel address and image of lane l of the image LOAD at p
TexelX(p, l) == heap[heap[ul[U(p).idp[2]].v][1].v][l].v
TexelY(p, l) == heap[heap[ul[U(p).idp[2]].v][2].v][l].v
ImageOf(p, l) == mem[heap[ul[U(p).idp[1]].v][l].v].data
ShapeOf(p) == dl[U(p).idp[1]]

\* C7: an image LOAD yields, for every lane and each of the 4 components c, 0
\* when the lane's (x, y) is outside the image's shape (width, height), else
\* the buffer element at offset x*4 + y*width*4 + c; it raises only when a
\* lane inside the shape has its offset outside the buffer.
C7_ImageLoad ==
  /\ \A p \in 0..(Len(uops) - 1) : ImageLoaded(p) =>
       /\ Len(heap[ul[p].v]) = 4
       /\ \A c \in 0..3 : \A l \in 1..warp_size :
            LET x == TexelX(p, l)
                y == TexelY(p, l)
                row == heap[heap[ul[p].v][c + 1].v]
            IN /\ Len(row) = warp_size
               /\ row[l] = IF x < 0 \/ x >= ShapeOf(p).w \/ y < 0 \/ y >= ShapeOf(p).h
                           THEN S(0)
                           ELSE S(ImageOf(p, l)[x * 4 + y * ShapeOf(p).w * 4 + c + 1])
  /\ (pc = "raised" /\ exc = "IndexError" /\ U(i).uop = "LOAD" /\ isImage(dl[U(i).idp[1]])) =>
       \E l \in 1..warp_size :
         /\ TexelX(i, l) >= 0 /\ TexelX(i, l) < ShapeOf(i).w
         /\ TexelY(i, l) >= 0 /\ TexelY(i, l) < ShapeOf(i).h
         /\ TexelX(i, l) * 4 + TexelY(i, l) * ShapeOf(i).w * 4 + 3 >= Len(ImageOf(i, l))

\* an image LOAD completed with one lane inside the shape, reading the second
\* row of the image, and one lane outside it
C7_Witness ==
  \E p \in 0..(Len(uops) - 1) :
    /\ ImageLoaded(p)
    /\ \E l, k \in 1..warp_size :
         /\ TexelX(p, l) = 0 /\ TexelY(p, l) = 1
         /\ heap[heap[ul[p].v][4].v][l] = S(8)
         /\ TexelX(p, k) = 1
         /\ heap[heap[ul[p].v][1].v][k] = S(0)

\* a DEFINE_LOCAL step that did not raise
LocalDefined == At({"DEFINE_LOCAL"}) /\ exc' = ""
Zeros(data) == \A e \in 1..Len(data) : data[e] = 0

\* C4: the buffer a DEFINE_LOCAL hands out is a new one, all zero, whatever an
\* earlier coordinate's run stored in the buffer the same instruction made
\* then; every lane gets that buffer and no other buffer changes.  In
\* LocalProg, which reads local[0] before it writes it, every coordinate reads
\* 0 and leaves out[g0] = 0.
C4_LocalBufferFresh ==
  /\ [][LocalDefined =>
          /\ Len(mem') = Len(mem) + 1
          /\ Len(mem'[Len(mem')].data) = U(i).arg.n
          /\ Zeros(mem'[Len(mem')].data)
          /\ \A b \in 1..Len(mem) : mem'[b] = mem[b]
          /\ Len(heap'[ul'[i].v]) = warp_size
          /\ \A l \in 1..warp_size :
               heap'[ul'[i].v][l].k = "m" /\ heap'[ul'[i].v][l].v = Len(mem')]_vars
  /\ [](uops = LocalProg =>
          /\ (pc = "run" /\ 4 \in DOMAIN ul /\ i <= 8) =>
               \A l \in 1..warp_size : LaneList(4)[l] = S(0)
          /\ pc = "returned" =>
               \A g \in 1..global_size[1] : mem[1].data[g] = 0)

\* a later coordinate's DEFINE_LOCAL has just run while the buffer an earlier
\* coordinate got from the same instruction holds that coordinate's store
C4_Witness ==
  /\ pc = "run" /\ i = 1 /\ uops = LocalProg
  /\ Len(mem) = 3
  /\ mem[2].decl = 0 /\ mem[2].data[1] = 5
  /\ mem[3].decl = 0 /\ Zeros(mem[3].data)

\* the value range of an integer dtype
Lo(dt) == IF is_unsigned(dt) THEN 0 ELSE 0 - Pow2(8 * dt.itemsize - 1)
Hi(dt) == IF is_unsigned(dt) THEN Pow2(8 * dt.itemsize) - 1 ELSE Pow2(8 * dt.itemsize - 1) - 1
\* a CAST to an integer dtype stands at position p and has produced its value
ScalarInt(dt) == is_int(dt) /\ dt.count = 1
IntCastDone(p) == U(p).uop = "CAST" /\ ScalarInt(U(p).dtype) /\ p \in DOMAIN ul

\* C5: a CAST of the integer x to an integer type of w bits yields in every
\* lane the value congruent to x modulo 2^w in the type's range (signed:
\* -2^(w-1) .. 2^(w-1)-1, unsigned: 0 .. 2^w-1); x in range is unchanged, 130
\* becomes -126 as signed 8-bit and stays 130 as unsigned 8-bit; the CAST
\* does not raise.
C5_CastWraps ==
  /\ \A p \in 0..(Len(uops) - 1) : IntCastDone(p) =>
       \A l \in 1..warp_size :
         LET x == LaneList(U(p).idp[1])[l].v
             r == LaneList(p)[l].v
             dt == U(p).dtype
         IN /\ r >= Lo(dt) /\ r <= Hi(dt)
            /\ (r - x) % Pow2(8 * dt.itemsize) = 0
            /\ (x >= Lo(dt) /\ x <= Hi(dt)) => r = x
            /\ (x = 130 /\ dt = int8) => r = 0 - 126
            /\ (x = 130 /\ dt = uint8) => r = 130
  /\ (pc = "raised" /\ U(i).uop = "CAST") => ~ScalarInt(U(i).dtype)

\* 130 has been cast to signed 8-bit in lane 0 and 131 in lane 1
C5_Witness ==
  /\ uops = CastProg(int8) /\ IntCastDone(3)
  /\ LaneList(2) = <<S(130), S(131)>>
  /\ LaneList(3) = <<S(0 - 126), S(0 - 125)>>

\* a BARRIER, IF or ENDIF step whose operands resolved
BarrierDone == At({"BARRIER", "IF", "ENDIF"}) /\ exc' = ""

\* C10: a BARRIER, IF or ENDIF only advances the instruction pointer by 1:
\* value table, lists, type table, loop table, cursors and buffers are
\* unchanged; and the STORE between the IF and the ENDIF of IfProg is done by
\* every lane whether the IF's condition is true or false.
C10_BarrierIfEndifAreNoOps ==
  /\ [][BarrierDone =>
          /\ i' = i + 1 /\ pc' = pc
          /\ UNCHANGED <<ul, heap, dl, loop_ends, pbufs, pvals, mem, coords, idxs>>]_vars
  /\ []((uops = IfProg /\ Passed) =>
          \A l \in 1..warp_size : mem[1].data[l] = 7)

\* the ENDIF of IfProg has run, the condition was false, every lane stored
C10_Witness ==
  /\ uops = IfProg /\ Passed /\ vals = <<0>>
  /\ warp_size = 3 /\ mem[1].data = <<7, 7, 7>>

\* a step in which an instruction raises
Raising == pc = "run" /\ exc' # ""
\* the write of ws at which the lane loops of a STORE stop: the first that
\* fails the image assertion or that is gated on and refused by its buffer
Refused(w) ==
  \/ ~w.ok
  \/ w.g # 0 /\ (w.idx < 0 \/ w.idx >= Len(mem[w.mv.v].data) \/ ~Fits(w.mv.f, w.val))
FirstRefused(ws) == CHOOSE n \in 1..Len(ws) : Refused(ws[n]) /\ \A k \in 1..(n - 1) : ~Refused(ws[k])
\* the caller's buffers are as they were when the call began
CallerBuffersUntouched == \A b \in 1..Len(mem0) : mem[b] = mem0[b]
\* the raising step stops the call where it is: the instruction pointer stays
\* on the failing instruction, which yields no value, and the for loop is not
\* resumed
StopsAtOnce ==
  /\ pc' = "raised" /\ i' = i /\ ul' = ul /\ heap' = heap /\ i \notin DOMAIN ul'
  /\ coords' = coords /\ idxs' = idxs
\* the error raised for a missing type, an unresolved value, a mismatch of
\* operand shapes or types, a layout that cannot be cast, an index out of range
ErrorRaised ==
  /\ ~Resolved(Ctx) => exc' = "KeyError"
  /\ (Resolved(Ctx) /\ U(i).uop \in {"CONST", "ALU", "CAST"}) => exc' = "AssertionError"
  /\ (Resolved(Ctx) /\ U(i).uop = "LOAD") => exc' = "IndexError"

\* C9 as stated: an error aborts the call at once, nothing runs after the
\* failing instruction, nothing is returned, and the caller's buffers carry no
\* result of the aborted call.
C9_AbortLeavesNoResult ==
  /\ [][Raising => StopsAtOnce]_vars
  /\ [][pc # "raised"]_vars
  /\ [](pc = "returned" => exc = "")
  /\ [](pc = "raised" => CallerBuffersUntouched)

\* C9 as amended: an error aborts the call at once: the failing instruction
\* yields no value, no instruction, lane or coordinate runs after it and the
\* call does not return.  The buffers keep every store made before the
\* failure: a failing instruction other than a STORE changes no buffer, and a
\* failing STORE leaves the writes of the lanes before the failing one (the
\* last of them on each element), and none of a later lane.
C9_AbortKeepsEarlierStores ==
  /\ [][Raising => StopsAtOnce /\ ErrorRaised]_vars
  /\ [][pc # "raised"]_vars
  /\ [](pc = "returned" => exc = "")
  /\ [](pc = "raised" <=> exc # "")
  /\ [][(Raising /\ (U(i).uop # "STORE" \/ ~Resolved(Ctx))) => mem' = mem]_vars
  /\ [][(Raising /\ U(i).uop = "STORE" /\ Resolved(Ctx)) =>
          LET ws == WritesAt(i)
              before == SubSeq(ws, 1, FirstRefused(ws) - 1)
          IN /\ Len(mem') = Len(mem)
             /\ \A b \in 1..Len(mem) :
                  /\ Len(mem'[b].data) = Len(mem[b].data)
                  /\ \A e \in 1..Len(mem[b].data) :
                       IF Hits(before, b, e) = {} THEN mem'[b].data[e] = mem[b].data[e]
                       ELSE mem'[b].data[e] = before[MaxOf(Hits(before, b, e))].val]_vars

\* a STORE raised in its second lane after its first lane had written, with a
\* third lane that would have written had the loop gone on
C9_Witness ==
  /\ pc = "raised" /\ Resolved(Ctx) /\ U(i).uop = "STORE"
  /\ mem # mem0
  /\ LET ws == WritesAt(i)
     IN /\ Len(ws) = 3 /\ ws[1].g # 0 /\ ws[3].g # 0
        /\ ws[2].g # 0 /\ ws[2].idx = 3
        /\ ws[3].idx \in 0..2 /\ ws[3].idx # ws[1].idx
        /\ mem[ws[1].mv.v].data[ws[1].idx + 1] = ws[1].val
        /\ mem[ws[3].mv.v].data[ws[3].idx + 1] # ws[3].val

\* ------------------------------------------------------------ any order
\* The coordinates of line 34 run in any order and interleaved instruction by
\* instruction: each coordinate has the context lines 35-40 make for it, one
\* context is current, the others wait in parked.

AnyOrderInit == InitOn(AnyOrderCases)

\* the current context becomes c
Enter(c) ==
  /\ idxs' = c.idxs /\ ul' = c.ul /\ dl' = c.dl /\ pbufs' = c.pbufs /\ pvals' = c.pvals
  /\ i' = c.i /\ loop_ends' = c.loop_ends /\ heap' = c.heap
  /\ pc' = "run"

\* lines 34-40, for any coordinate not yet begun
StartAny ==
  /\ pc = "for"
  /\ \E n \in 1..Len(coords) :
       /\ Enter(NewCtx(coords[n]))
       /\ coords' = SubSeq(coords, 1, n - 1) \o SubSeq(coords, n + 1, Len(coords))
  /\ UNCHANGED <<uops, bufs, vals, global_size, local_size, mem, mem0, parked, exc>>

\* the current coordinate's run is suspended between two instructions
Park ==
  /\ pc = "run"
  /\ parked' = parked \cup {Ctx}
  /\ pc' = "for"
  /\ idxs' = <<0, 0, 0>>
  /\ ul' = EmptyDict /\ dl' = EmptyDict /\ loop_ends' = EmptyDict
  /\ pbufs' = << >> /\ pvals' = << >> /\ i' = 0 /\ heap' = << >>
  /\ UNCHANGED <<uops, bufs, vals, global_size, local_size, mem, mem0, coords, exc>>

\* a suspended run goes on
Resume ==
  /\ pc = "for"
  /\ \E c \in parked : Enter(c) /\ parked' = parked \ {c}
  /\ UNCHANGED <<uops, bufs, vals, global_size, local_size, mem, mem0, coords, exc>>

\* line 142, once every coordinate's run has ended
ReturnAny ==
  /\ pc = "for" /\ coords = << >> /\ parked = {}
  /\ pc' = "returned"
  /\ UNCHANGED <<uops, bufs, vals, global_size, local_size, mem, mem0, coords, idxs,
                 ul, dl, pbufs, pvals, i, loop_ends, heap, parked, exc>>

AnyOrderNext ==
  \/ StartAny \/ Park \/ Resume \/ EndWhile \/ ReturnAny
  \/ ExecSTORE \/ ExecENDRANGE \/ ExecBARRIER
  \/ ExecDEFINE_GLOBAL \/ ExecDEFINE_LOCAL \/ ExecDEFINE_VAR \/ ExecSPECIAL
  \/ ExecCONST \/ ExecDEFINE_ACC \/ ExecRANGE \/ ExecVECTORIZE \/ ExecCAST
  \/ ExecLOAD \/ ExecASSIGN \/ ExecGEP \/ ExecALU

AnyOrderSpec == AnyOrderInit /\ [][AnyOrderNext]_vars

\* The sequential reference: __call__ as a function of the buffers.
\* An element access of coordinate co: element e (from 1) of the caller's
\* buffer b, stored (w) or loaded
Touch(co, b, e, w) == [co |-> co, b |-> b, e |-> e, w |-> w]
\* the elements of the caller's buffers the LOAD or STORE at c.i accesses
Touched(c) ==
  IF ~Resolved(c) \/ U(c.i).uop \notin {"LOAD", "STORE"} THEN {}
  ELSE IF U(c.i).uop = "STORE"
  THEN { Touch(c.idxs, Writes(c)[n].mv.v, Writes(c)[n].idx + 1, TRUE) :
           n \in {k \in 1..Len(Writes(c)) :
                    Writes(c)[k].g # 0 /\ Writes(c)[k].mv.v <= Len(mem0)} }
  ELSE LET rs == IF isImage(dtp(c)[1]) THEN ImageReads(c) ELSE BufferReads(c)
       IN { Touch(c.idxs, rs[n].mv.v, rs[n].idx + 1, FALSE) :
              n \in {k \in 1..Len(rs) :
                       rs[k].g /\ ~rs[k].outside /\ rs[k].mv.v <= Len(mem0)} }

\* lines 41-141: the run of one coordinate from context c on memory m; t
\* collects the accesses
RECURSIVE RunCoordinate(_, _, _)
RunCoordinate(c, m, t) ==
  IF c.exc # "" \/ c.i >= Len(uops) THEN [c |-> c, m |-> m, t |-> t]
  ELSE LET r == Exec(c, m)
       IN RunCoordinate(r.c, r.m, t \cup Touched(c))

\* lines 34-142: the coordinates cs one after the other
RECURSIVE RunAll(_, _, _)
RunAll(cs, m, t) ==
  IF cs = << >> THEN [m |-> m, t |-> t, exc |-> ""]
  ELSE LET r == RunCoordinate(NewCtx(Head(cs)), m, t)
       IN IF r.c.exc # "" THEN [m |-> r.m, t |-> r.t, exc |-> r.c.exc]
          ELSE RunAll(Tail(cs), r.m, r.t)

Reference == RunAll(product(global_size), mem0, {})
\* no coordinate loads or stores an element that another coordinate stores
RaceFree(t) == \A x, y \in t : (x.w /\ x.b = y.b /\ x.e = y.e) => x.co = y.co
\* the caller's buffers hold what they hold after the call in m
SameBuffers(m) == \A b \in 1..Len(mem0) : mem[b] = m[b]
\* every coordinate's run has passed the last instruction
AllPassed ==
  /\ coords = << >> /\ \A c \in parked : c.i >= Len(uops)
  /\ pc \in {"for", "returned"} \/ Passed
\* the call is over: every coordinate ran to its end, or an error ended it
Over == AllPassed \/ pc = "raised"

Points(size) ==
  { <<c, b, a>> : a \in 0..(size[1] - 1), b \in 0..(size[2] - 1), c \in 0..(size[3] - 1) }
\* ps lists every point of the grid once
ListsOnce(ps, size) ==
  /\ {ps[n] : n \in 1..Len(ps)} = Points(size)
  /\ \A n, k \in 1..Len(ps) : ps[n] = ps[k] => n = k
\* the n-th coordinate is running, the ones after it are still to come
Running(n) ==
  /\ coords = SubSeq(product(global_size), n + 1, Len(product(global_size)))
  /\ pc = "run" => n >= 1 /\ idxs = product(global_size)[n]
\* element e (from 1) of GridProg's out buffer belongs to a point of the grid
GridElement(e) ==
  /\ (e - 1) % 2 < global_size[1]
  /\ ((e - 1) \div 2) % 2 < global_size[2]
  /\ (e - 1) \div 4 < global_size[3]

\* C11: the for loop lists every point of the grid once; the coordinates are
\* begun one after the other in that order, each with an empty value table,
\* type table and loop-close table and at position 0, and left only when the
\* instruction pointer has passed the last instruction; the call returns when
\* none is left.  With a component of global_size that is 0 no run begins.
\* GridProg, in which every run adds 1 to its own element, leaves 1 in the
\* elements of the grid's points and 0 in the others.
C11_EveryCoordinateOnce ==
  /\ [](ListsOnce(product(global_size), global_size))
  /\ [](\E n \in 0..Len(product(global_size)) : Running(n))
  /\ [](pc = "returned" => coords = << >>)
  /\ []((\E k \in 1..3 : global_size[k] = 0) => (pc \in {"for", "returned"} /\ mem = mem0))
  /\ [][(pc = "for" /\ pc' = "run") =>
          /\ ul' = EmptyDict /\ dl' = EmptyDict /\ loop_ends' = EmptyDict /\ i' = 0
          /\ idxs' = Head(coords) /\ coords' = Tail(coords)]_vars
  /\ [][(pc = "run" /\ pc' = "for") => i >= Len(uops)]_vars
  /\ []((uops = GridProg /\ pc = "returned") =>
          \A e \in 1..8 : mem[1].data[e] = IF GridElement(e) THEN 1 ELSE 0)

\* GridProg has returned from a grid of 2 x 1 x 2 points: 4 elements hold 1
C11_Witness ==
  /\ uops = GridProg /\ pc = "returned" /\ global_size = <<2, 1, 2>>
  /\ mem[1].data = <<1, 1, 0, 0, 1, 1, 0, 0>>

\* ------------------------------------------------------------ value table
\* lst holds one number or memoryview per lane
LaneVector(lst) ==
  Len(lst) = warp_size /\ \A l \in 1..Len(lst) : lst[l].k \in {"s", "m"}
\* lst holds n component lists, each one value per lane
ComponentVectors(lst, n) ==
  Len(lst) = n /\ \A j \in 1..Len(lst) : lst[j].k = "l" /\ LaneVector(heap[lst[j].v])

\* C12 as stated: every entry of the value table is a sequence of warp_size
\* elements.
C12_EveryEntryWarpWide ==
  pc = "run" => \A p \in DOMAIN ul : Len(LaneList(p)) = warp_size

\* C12 as amended: the entry of an instruction with a one-component dtype is a
\* sequence of warp_size values; the entry of an instruction with a
\* multi-component dtype (VECTORIZE, multi-component LOAD and DEFINE_ACC) or of
\* an image LOAD is a sequence of as many component sequences as the dtype has
\* components, each of warp_size values.
C12_EntriesByComponent ==
  pc = "run" => \A p \in DOMAIN ul :
    IF U(p).dtype.count > 1
    THEN ComponentVectors(LaneList(p), U(p).dtype.count)
    ELSE LaneVector(LaneList(p))

\* with 3 lanes, the value table holds a two-component VECTORIZE, a
\* two-component DEFINE_ACC and the ASSIGN to it
C12_Witness ==
  /\ uops = VecAccProg /\ pc = "run" /\ warp_size = 3 /\ 7 \in DOMAIN ul
  /\ Len(LaneList(2)) = 2 /\ Len(LaneList(3)) = 2 /\ Len(LaneList(7)) = 2
  /\ Len(heap[LaneList(3)[1].v]) = 3

\* ------------------------------------------------------------ arguments
\* the number of instructions of kind k that have run in this coordinate's run
Defined(k) == Cardinality({p \in DOMAIN ul : U(p).uop = k})
\* a definition of kind k runs, for the first time in this coordinate's run
Defining(k) == At({k}) /\ i \notin DOMAIN ul /\ exc' = ""

\* C13: in every coordinate's run the k-th DEFINE_GLOBAL executed hands every
\* lane the caller's k-th buffer and the k-th DEFINE_VAR the caller's k-th
\* value; each moves its own cursor by one and leaves the other; the caller's
\* lists never change and every coordinate begins with both cursors on them
\* whole.  ArgsProg leaves x in a[g0] and y in b[g0] for every coordinate.
C13_ArgumentsInOrder ==
  /\ [][Defining("DEFINE_GLOBAL") =>
          /\ \A l \in 1..warp_size :
               LET cell == heap'[ul'[i].v][l]
               IN cell.k = "m" /\ cell.v = bufs[Defined("DEFINE_GLOBAL") + 1]
          /\ pbufs' = Tail(pbufs) /\ pvals' = pvals]_vars
  /\ [][Defining("DEFINE_VAR") =>
          /\ heap'[ul'[i].v] = Rep(S(vals[Defined("DEFINE_VAR") + 1]), warp_size)
          /\ pvals' = Tail(pvals) /\ pbufs' = pbufs]_vars
  /\ [][bufs' = bufs /\ vals' = vals]_vars
  /\ [][(pc = "for" /\ pc' = "run") => (pbufs' = bufs /\ pvals' = vals)]_vars
  /\ []((uops = ArgsProg /\ pc = "returned") =>
          \A g \in 1..global_size[1] :
            mem[1].data[g] = vals[1] /\ mem[2].data[g] = vals[2])

\* the third coordinate of ArgsProg has defined its second value, 6, after 4
C13_Witness ==
  /\ uops = ArgsProg /\ pc = "run" /\ idxs = <<0, 0, 2>> /\ i = 4
  /\ vals = <<4, 6>> /\ warp_size = 2
  /\ LaneList(1) = <<S(4), S(4)>> /\ LaneList(3) = <<S(6), S(6)>>
  /\ LaneList(2)[1].v = 2
  /\ mem[1].data = <<4, 4, 0>> /\ mem[2].data = <<6, 6, 9>>

\* ------------------------------------------------------------ ASSIGN
\* an ASSIGN step that did not raise
Assigned == At({"ASSIGN"}) /\ exc' = ""
\* the positions of the ASSIGN's destination and source
DstOf(p) == U(p).idp[1]
SrcOf(p) == U(p).idp[2]

\* C14: after ASSIGN(dst, src) the entry of dst's position and the entry of
\* the ASSIGN are one list, which holds src's value in every lane (every
\* component, for a multi-component accumulator); src's entry and every other
\* entry of the value table are unchanged.  In the loop of LoopProg the ALU
\* that reads the accumulator gets the value of the last ASSIGN plus 1, not
\* the seed plus 1: with the loop variable at s + k it yields k + 1.
C14_AssignInPlace ==
  /\ [][Assigned =>
          /\ ul'[i] = ul[DstOf(i)]
          /\ \A p \in DOMAIN ul : p # i => ul'[p] = ul[p]
          /\ heap'[ul[DstOf(i)].v] = heap[ul[SrcOf(i)].v]
          /\ heap'[ul[SrcOf(i)].v] = heap[ul[SrcOf(i)].v]
          /\ \A id \in 1..Len(heap) : id # ul[DstOf(i)].v => heap'[id] = heap[id]]_vars
  /\ [](\A s \in 0..MaxN, N \in 0..MaxN :
          (uops = LoopProg(s, N) /\ pc = "run" /\ i = 7) =>
             \A l \in 1..warp_size :
               /\ LaneList(6)[l].v = LaneList(4)[l].v + 1
               /\ LaneList(4)[l].v = LaneList(5)[l].v - s)

\* the second ASSIGN of the loop has run: the accumulator and the ASSIGN hold
\* 2, the sum the ALU made from the first ASSIGN's 1
C14_Witness ==
  /\ uops = LoopProg(0, 3) /\ pc = "run" /\ i = 8 /\ warp_size = 2
  /\ LaneList(5) = <<S(1), S(1)>>
  /\ LaneList(4) = <<S(2), S(2)>> /\ ul[7] = ul[4]
  /\ LaneList(6) = <<S(2), S(2)>> /\ ul[6] # ul[4]

\* ------------------------------------------------------------ loops
\* a RANGE or ENDRANGE step that did not raise
Ranged == At({"RANGE"}) /\ exc' = ""
EndRanged == At({"ENDRANGE"}) /\ exc' = ""
\* the start and the bound of the RANGE at position i, as its operands hold them
StartOf == heap[ul[U(i).idp[1]].v][1].v
BoundOf == heap[ul[U(i).idp[2]].v][1].v
\* the steps of a loop, whatever its start and bound: the first visit of a
\* RANGE seeds every lane with the start and goes on to the body; a re-visit
\* adds 1 in every lane, and goes to the position after the ENDRANGE, the loop
\* variable removed, when the sum is the bound, on to the body when it is not;
\* an ENDRANGE records its position for its RANGE and goes back to it
LoopSteps ==
  /\ [][(Ranged /\ i \notin DOMAIN ul) =>
          /\ heap'[ul'[i].v] = Rep(S(StartOf), warp_size)
          /\ i' = i + 1]_vars
  /\ [][(Ranged /\ i \in DOMAIN ul) =>
          LET next == LaneList(i)[1].v + 1
          IN IF next = BoundOf
             THEN i' = loop_ends[i] + 1 /\ i \notin DOMAIN ul'
             ELSE i' = i + 1 /\ heap'[ul'[i].v] = Rep(S(next), warp_size)]_vars
  /\ [][EndRanged =>
          /\ i' = U(i).idp[1] /\ U(i').uop = "RANGE"
          /\ loop_ends' = Put(loop_ends, U(i).idp[1], i)]_vars

\* C15: for a loop with start s < bound b the body is executed b - s times,
\* with the loop variable at s, s + 1, .., b - 1 in every lane: in LoopProg,
\* whose body adds 1 to the accumulator, the loop variable in the body is s
\* plus the accumulator and less than b, and after the loop the accumulator
\* is b - s.  ENDRANGE goes to its RANGE, and the RANGE to the position after
\* the ENDRANGE when the incremented loop variable is b.
C15_LoopRunsBoundMinusStart ==
  /\ LoopSteps
  /\ [](\A s \in 0..MaxN, b \in 0..MaxN :
          (uops = LoopProg(s, b) /\ s < b /\ pc = "run") =>
             /\ i \in 6..8 =>
                  /\ LaneList(5) = Rep(S(LaneList(5)[1].v), warp_size)
                  /\ LaneList(5)[1].v \in s..(b - 1)
                  /\ i = 6 => LaneList(5)[1].v = s + LaneList(4)[1].v
             /\ i >= 9 => (LaneList(4) = Rep(S(b - s), warp_size) /\ 5 \notin DOMAIN ul))

\* the loop from 1 to 3 has just exited after its 2 body executions
C15_Witness ==
  /\ uops = LoopProg(1, 3) /\ pc = "run" /\ i = 9 /\ warp_size = 2
  /\ LaneList(4) = <<S(2), S(2)>>
  /\ 5 \notin DOMAIN ul /\ loop_ends[5] = 8

\* ------------------------------------------------------------ nested loops
\* the state runs NestedProg with start < bound in both loops
OuterStart == U(1).arg.n
OuterBound == U(2).arg.n
InnerStart == U(3).arg.n
InnerBound == U(4).arg.n
InNested ==
  /\ Len(uops) = 15 /\ uops = NestedProg(OuterStart, OuterBound, InnerStart, InnerBound)
  /\ OuterStart < OuterBound /\ InnerStart < InnerBound /\ pc = "run"

\* C16: the inner loop variable leaves the value table when the inner loop
\* exits, so the inner RANGE is a first visit, seeded from its start, on every
\* iteration of the outer loop: in NestedProg with s1 < b1 and s2 < b2 the
\* inner loop variable is absent whenever the outer RANGE or ENDRANGE is about
\* to execute, at the inner body the accumulator is
\* (outer - s1) * (b2 - s2) + (inner - s2), and after the loops it is
\* (b1 - s1) * (b2 - s2).
C16_InnerLoopReseeded ==
  /\ [](InNested =>
          /\ i \in {7, 12} => 8 \notin DOMAIN ul
          /\ i \in 9..11 =>
               /\ LaneList(7)[1].v \in OuterStart..(OuterBound - 1)
               /\ LaneList(8) = Rep(S(LaneList(8)[1].v), warp_size)
               /\ LaneList(8)[1].v \in InnerStart..(InnerBound - 1)
               /\ i = 9 => LaneList(6)[1].v =
                    (LaneList(7)[1].v - OuterStart) * (InnerBound - InnerStart) + (LaneList(8)[1].v - InnerStart)
          /\ i >= 13 => LaneList(6) = Rep(S((OuterBound - OuterStart) * (InnerBound - InnerStart)), warp_size))
  /\ [][(InNested /\ Ranged /\ i = 8 /\ 8 \notin DOMAIN ul) =>
          (i' = 9 /\ heap'[ul'[8].v] = Rep(S(InnerStart), warp_size))]_vars

\* the inner RANGE is about to be seeded again, in the second of the outer
\* loop's iterations, after two executions of the inner body
C16_Witness ==
  /\ uops = NestedProg(0, 2, 1, 3) /\ pc = "run" /\ i = 8 /\ 8 \notin DOMAIN ul
  /\ LaneList(7)[1].v = 1 /\ LaneList(6)[1].v = 2

\* ------------------------------------------------------------ unresolved operands
\* an instruction is about to execute
Fetching == pc = "run" /\ i < Len(uops)
\* the operand positions of the instruction at i that are looked up: those
\* that are not STORE, ENDRANGE, BARRIER, IF or ENDIF instructions, and of a
\* DEFINE_ACC the first only
LookedUp ==
  { U(i).idp[n] : n \in { k \in 1..Len(U(i).idp) :
       /\ U(i).uop = "DEFINE_ACC" => k = 1
       /\ U(U(i).idp[k]).uop \notin {"STORE", "ENDRANGE", "BARRIER", "IF", "ENDIF"} } }
Missing == LookedUp \ DOMAIN ul

\* C17: an instruction with a looked-up operand position that has no entry in
\* the value table aborts the call with KeyError, its position given no
\* value, no buffer changed and no jump recorded; an instruction all of whose
\* looked-up operands have entries raises no KeyError, whatever its other
\* operands; the position of a loop variable has no entry after the loop's
\* exit, and a coordinate's run starts with an empty value table, so that
\* nothing an earlier coordinate produced resolves.
C17_UnresolvedOperandAborts ==
  /\ [][(Fetching /\ Missing # {}) =>
          /\ pc' = "raised" /\ exc' = "KeyError"
          /\ ul' = ul /\ i \notin DOMAIN ul' /\ i' = i
          /\ mem' = mem /\ loop_ends' = loop_ends /\ coords' = coords]_vars
  /\ [][(Fetching /\ Missing = {}) => exc' # "KeyError"]_vars
  /\ [][(Ranged /\ i' # i + 1) => i \notin DOMAIN ul']_vars
  /\ [][(pc = "for" /\ pc' = "run") => ul' = EmptyDict]_vars

\* the ALU after the loop named the loop variable, which has a dtype but no
\* value any more
C17_Witness ==
  /\ uops = AfterLoopProg("alu") /\ pc = "raised" /\ exc = "KeyError" /\ i = 5
  /\ 2 \notin DOMAIN ul /\ 2 \in DOMAIN dl /\ loop_ends[2] = 3
  /\ Missing = {2}

\* ------------------------------------------------------------ SPECIAL
\* component a of point number n (from 0) of a grid of the given size, when
\* the points are numbered with axis 0 varying fastest
AxisOf(n, size, a) ==
  CASE a = 0 -> n % size[1]
    [] a = 1 -> (n \div size[1]) % size[2]
    [] a = 2 -> n \div (size[1] * size[2])
\* the number (from 0) of the coordinate that is running
Ordinal == global_size[1] * global_size[2] * global_size[3] - Len(coords) - 1
Specialled == At({"SPECIAL"}) /\ exc' = ""

\* C18: SPECIAL for global axis a yields in every lane component a of the
\* running coordinate, a number below global_size[a]; SPECIAL for local axis
\* a yields in lane j component a of the lane's local index, where
\* j = l0 + l1*local_size[0] + l2*local_size[0]*local_size[1] and l_a is
\* below local_size[a]; the lanes are as many as the product of local_size.
\* In GridProg the three global values are the running coordinate and the
\* three local values of lane j recompose j.
C18_SpecialAxes ==
  /\ [][Specialled =>
          LET a == U(i).arg.n
              lst == heap'[ul'[i].v]
          IN /\ Len(lst) = local_size[1] * local_size[2] * local_size[3]
             /\ U(i).arg.s = "g" =>
                  \A j \in 1..Len(lst) :
                     /\ lst[j] = S(AxisOf(Ordinal, global_size, a))
                     /\ lst[j].v \in 0..(global_size[a + 1] - 1)
             /\ U(i).arg.s = "l" =>
                  \A j \in 1..Len(lst) :
                     /\ lst[j] = S(AxisOf(j - 1, local_size, a))
                     /\ lst[j].v \in 0..(local_size[a + 1] - 1)]_vars
  /\ []((uops = GridProg /\ pc = "run" /\ i >= 4) =>
          /\ <<LaneList(3)[1].v, LaneList(2)[1].v, LaneList(1)[1].v>> = idxs
          /\ idxs \in Points(global_size))
  /\ []((uops = GridProg /\ pc = "run" /\ i >= 17) =>
          \A j \in 1..warp_size :
             /\ j - 1 = LaneList(14)[j].v + LaneList(15)[j].v * local_size[1]
                          + LaneList(16)[j].v * local_size[1] * local_size[2]
             /\ \A a \in 0..2 : LaneList(14 + a)[j].v \in 0..(local_size[a + 1] - 1))

\* the second coordinate of a run with 3 x 2 x 1 lanes has yielded its local
\* indices: axis 0 varies fastest
C18_Witness ==
  /\ uops = GridProg /\ pc = "run" /\ i >= 17 /\ local_size = <<3, 2, 1>>
  /\ idxs = <<0, 0, 1>> /\ LaneList(1) = Rep(S(1), 6)
  /\ LaneList(14) = <<S(0), S(1), S(2), S(0), S(1), S(2)>>
  /\ LaneList(15) = <<S(0), S(0), S(0), S(1), S(1), S(1)>>
  /\ LaneList(16) = Rep(S(0), 6)

\* ------------------------------------------------------------ colliding lanes
\* StoreProg or VectorStoreProg has executed its STORE, the last instruction
Stored ==
  /\ uops \in {StoreProg(TRUE), StoreProg(FALSE), VectorStoreProg}
  /\ exc = "" /\ ((pc = "run" /\ i >= Len(uops)) \/ pc = "returned")
\* what lane l (from 0) of these programs stores: component j of the value at
\* element idx[l] + j, when gate[l] or when the STORE has no gate
StoredComponents == IF uops = VectorStoreProg THEN 2 ELSE 1
GatedOn(l) == uops = StoreProg(FALSE) \/ mem[3].data[l + 1] # 0
StoredValue(j, l) == l + 10 + 10 * j
\* the <<component, lane>> pairs of the gated-on lanes that address element e
Addressing(e) ==
  { w \in (0..(StoredComponents - 1)) \X (0..(warp_size - 1)) :
      GatedOn(w[2]) /\ mem[2].data[w[2] + 1] + w[1] = e }
HighestLane(ws) == CHOOSE w \in ws : \A x \in ws : x[2] <= w[2]
\* the last of ws when component j of every lane comes before component j + 1
\* of any lane, and the lanes of a component in increasing order
LastWritten(ws) ==
  CHOOSE w \in ws : \A x \in ws : x[1] < w[1] \/ (x[1] = w[1] /\ x[2] <= w[2])

\* C19 as stated: an element that gated-on lanes of one STORE address holds,
\* after the STORE, the value of the highest-numbered of these lanes.
C19_HighestLaneWins ==
  Stored => \A e \in 0..2 :
     Addressing(e) # {} =>
        LET w == HighestLane(Addressing(e)) IN mem[1].data[e + 1] = StoredValue(w[1], w[2])

\* C19 as amended: the writes are made component by component, and within a
\* component in increasing lane order: an element that gated-on lanes address
\* holds, after the STORE, the value of the highest component that addresses
\* it, from the highest-numbered lane among those that address it with that
\* component; in a one-component STORE that is the highest-numbered lane.
C19_LastComponentThenLaneWins ==
  Stored => \A e \in 0..2 :
     Addressing(e) # {} =>
        LET w == LastWritten(Addressing(e)) IN mem[1].data[e + 1] = StoredValue(w[1], w[2])

\* the two-component STORE of lane 0 at elements 0, 1 and of lane 1 at
\* elements 1, 2: element 1 holds component 1 of lane 0, not component 0 of
\* lane 1
C19_Witness ==
  /\ Stored /\ uops = VectorStoreProg
  /\ mem[2].data = <<0, 1>> /\ GatedOn(0) /\ GatedOn(1)
  /\ Addressing(1) = {<<1, 0>>, <<0, 1>>}
  /\ mem[1].data = <<10, 20, 21>>

\* ------------------------------------------------------------ gated LOAD
\* the LOAD at position 8 of LoadProg is about to execute: lane l (from 1)
\* has the index idx[l] and the gate gate[l], as the caller's buffers hold them
Loading(form) == uops = LoadProg(form) /\ pc = "run" /\ i = 8
LaneIndex(l) == mem[2].data[l]
LaneGate(l) == mem[3].data[l] # 0
InSrc(x) == x \in 0..(Len(mem[1].data) - 1)
\* the step raised IndexError and produced nothing
LoadRefused == exc' = "IndexError" /\ pc' = "raised" /\ ul' = ul
\* the step produced lst at position 8
LoadYields(lst) == exc' = "" /\ i' = 9 /\ heap'[ul'[8].v] = lst

\* C20: the LOAD with four operands yields in a lane whose gate is true the
\* element at the lane's index and in a lane whose gate is false the lane's
\* alternate value, 77, whatever the index of that lane; it raises when, and
\* only when, the index of a lane whose gate is true is out of range.  The
\* LOAD with two operands yields the element at every lane's index and raises
\* when the index of any lane is out of range.  No LOAD changes a buffer.
C20_GatedLoad ==
  /\ [][Loading("gated") =>
          IF \E l \in 1..warp_size : LaneGate(l) /\ ~InSrc(LaneIndex(l))
          THEN LoadRefused
          ELSE LoadYields([l \in 1..warp_size |->
                 IF LaneGate(l) THEN S(mem[1].data[LaneIndex(l) + 1]) ELSE S(77)])]_vars
  /\ [][Loading("plain") =>
          IF \E l \in 1..warp_size : ~InSrc(LaneIndex(l))
          THEN LoadRefused
          ELSE LoadYields([l \in 1..warp_size |-> S(mem[1].data[LaneIndex(l) + 1])])]_vars
  /\ [][At({"LOAD"}) => mem' = mem]_vars

\* the gated LOAD has yielded the alternate value in lane 0, whose gate is
\* false and whose index is out of range, and element 1 in lane 1
C20_Witness ==
  /\ uops = LoadProg("gated") /\ pc = "run" /\ i = 9
  /\ LaneIndex(1) = 3 /\ ~LaneGate(1) /\ LaneIndex(2) = 1 /\ LaneGate(2)
  /\ LaneList(8) = <<S(77), S(2)>>
====
